---- MODULE Spec2Model ----
(***************************************************************************)
(* pydantic_xmlmodel: the two converters between pydantic models and XML.  *)
(*   serde.py    : model_dump_xml / model_validate_xml (pydantic v2)       *)
(*   xmlmodel.py : XMLModel.to_xml / XMLModel.from_xml (pydantic v1)       *)
(* A state holds one class table, one instance, and the record of the last *)
(* encode call and of the last decode call made on them.                   *)
(***************************************************************************)
EXTENDS Integers, Sequences, FiniteSets, TLC

VARIABLES classes, obj, dump, load

vars == <<classes, obj, dump, load>>

(***************************************************************************)
(* Bounds of the model.                                                    *)
(***************************************************************************)
\* the most fields the class under test declares itself
MaxFields == 2
\* the most fields it declares when its naming or its content field is not the default
MaxVariantFields == 1
\* the most items a list value holds
\* how deep an instance of a self-referential type nests
MaxDepth == 2
MaxItems == 2

(***************************************************************************)
(* Python values.                                                          *)
(***************************************************************************)
\* the None object where a str (or a class attribute) is expected
None == "<None>"
\* an attribute the class does not have (hasattr is False)
Absent == "<absent>"
\* a typing construct given where a class is expected (issubclass raises TypeError)
NotAClass == "<not a class>"

PyNone == [k |-> "none"]
StrV(s) == [k |-> "str", v |-> s]
IntV(i) == [k |-> "int", v |-> i]
ListV(items) == [k |-> "list", items |-> items]
ModelV(cls, vals) == [k |-> "model", cls |-> cls, vals |-> vals]

\* the ints a field may hold
Ints == {123}
\* the strings a field may hold
Strs == {"test"}

(***************************************************************************)
(* Annotations: cls is the class itself, or for a generic alias its        *)
(* origin; generic says whether typing.get_origin returns something.       *)
(***************************************************************************)
Plain(c) == [cls |-> c, generic |-> FALSE, args |-> <<>>]
Generic(c, args) == [cls |-> c, generic |-> TRUE, args |-> args]
NoneType == Plain("NoneType")
Optional(a) == Generic("Union", <<a, NoneType>>)
List(a) == Generic("list", <<a>>)
\* typing.List without parameters: get_origin is list, get_args is ()
BareList == Generic("list", <<>>)
\* the builtin list class: get_origin is None
BuiltinList == Plain("list")
\* typing.Union and typing.Tuple with their parameters
UnionOf(args) == Generic("Union", args)
TupleOf(args) == Generic("tuple", args)

get_origin(a) == IF a.generic THEN a.cls ELSE None
get_args(a) == a.args
\* the annotation as the first argument of issubclass
AsClass(a) == IF a.generic THEN NotAClass ELSE a.cls

ModelIds == {"Example", "Item", "Part"}

\* str.lower and str.upper on the class identifiers
Lower(s) == CASE s = "Example" -> "example" [] s = "Item" -> "item" [] s = "Part" -> "part"
Upper(s) == CASE s = "Example" -> "EXAMPLE" [] s = "Item" -> "ITEM" [] s = "Part" -> "PART"

ApplyFn(fn, s) == CASE fn = "lower" -> Lower(s) [] fn = "upper" -> Upper(s)

\* the explicit element names the classes declare when they declare one
OwnName(c) == CASE c = "Example" -> "example" [] c = "Item" -> "test_inner" [] c = "Part" -> "list2"
ConfigName(c) == CASE c = "Example" -> "cfg_example" [] c = "Item" -> "cfg_item" [] c = "Part" -> "cfg_part"

(***************************************************************************)
(* issubclass, guarded as in _issubclass_safe.                             *)
(***************************************************************************)
_issubclass_safe(cls, classinfo) ==
    CASE classinfo = "BaseModel" -> cls \in ModelIds
      [] classinfo = "XMLModel" -> cls \in ModelIds /\ classes[cls].base = "XMLModel"
      [] classinfo = "Sequence" -> cls \in {"list", "tuple", "str"}
      [] classinfo = "str" -> cls = "str"

(***************************************************************************)
(* Results of operations that may raise.                                   *)
(***************************************************************************)
ValueError == "ValueError"
ValidationError == "ValidationError"
ParseError == "ParseError"
TypeError == "TypeError"
KeyError == "KeyError"
UnboundLocalError == "UnboundLocalError"
AttributeError == "AttributeError"
NoError == ""

Raise(e) == [err |-> e]
Raised(r) == r.err # NoError

\* a local variable: Body of the value assigned to it
With(value, Body(_)) == Body(value)

(***************************************************************************)
(* serde.py: classification of a field annotation.                         *)
(***************************************************************************)
_analyze_sequence(origin, args) ==
    IF _issubclass_safe(origin, "Sequence")
    THEN IF args = <<>>
         THEN Raise(ValueError)
         ELSE IF \E i \in 1..Len(args) : ~_issubclass_safe(AsClass(args[i]), "BaseModel")
              THEN Raise(ValueError)
              ELSE [err |-> NoError, val |-> TRUE]
    ELSE [err |-> NoError, val |-> FALSE]

RECURSIVE UnionArms(_, _, _)
\* the loop over the arms of a Union, from arm i on
UnionArms(args, i, acc) ==
    IF i > Len(args) THEN acc
    ELSE IF _issubclass_safe(AsClass(args[i]), "BaseModel")
         THEN UnionArms(args, i + 1, [acc EXCEPT !.is_basemodel = TRUE])
         ELSE LET s == _analyze_sequence(get_origin(args[i]), get_args(args[i]))
              IN  IF Raised(s) THEN [acc EXCEPT !.err = s.err]
                  ELSE IF s.val
                       THEN UnionArms(args, i + 1,
                                [acc EXCEPT !.is_list = TRUE, !.is_basemodel = TRUE])
                       ELSE UnionArms(args, i + 1, acc)

_analyze_annotation(origin, args) ==
    LET no == [err |-> NoError, is_list |-> FALSE, is_basemodel |-> FALSE]
    IN  IF origin = "Union" THEN UnionArms(args, 1, no)
        ELSE IF _issubclass_safe(origin, "str") THEN no
        ELSE LET s == _analyze_sequence(origin, args)
             IN  IF Raised(s) THEN [no EXCEPT !.err = s.err]
                 ELSE IF s.val THEN [no EXCEPT !.is_list = TRUE, !.is_basemodel = TRUE]
                 ELSE IF _issubclass_safe(origin, "BaseModel")
                      THEN [no EXCEPT !.is_basemodel = TRUE]
                      ELSE no

\* the candidate classes of a field, a Python set
_find_basemodel_types(origin, args) ==
    IF origin = "Union"
    THEN [err |-> NoError,
          val |-> {AsClass(args[i]) : i \in {j \in 1..Len(args) :
                        _issubclass_safe(AsClass(args[j]), "BaseModel")}}]
    ELSE IF _issubclass_safe(origin, "Sequence")
    THEN IF args = <<>> THEN Raise(ValueError)
         ELSE [err |-> NoError,
               val |-> {AsClass(args[i]) : i \in {j \in 1..Len(args) :
                             _issubclass_safe(AsClass(args[j]), "BaseModel")}}]
    ELSE IF _issubclass_safe(origin, "BaseModel")
    THEN [err |-> NoError, val |-> {origin}]
    ELSE [err |-> NoError, val |-> {}]

\* lines 147-150 and 225-228: the origin, or the annotation itself without one
OriginOf(annotation) ==
    IF get_origin(annotation) = None THEN AsClass(annotation) ELSE get_origin(annotation)

(***************************************************************************)
(* Element names.                                                          *)
(***************************************************************************)
_get_basemodel_name(c) ==
    IF classes[c].xml_name # Absent THEN classes[c].xml_name
    ELSE IF classes[c].pydantic = "v2" /\ classes[c].config_xml_name # None
         THEN classes[c].config_xml_name
         ELSE c

_get_xml_name(c) ==
    IF classes[c].xml_name # None THEN classes[c].xml_name
    ELSE IF classes[c].fn # None THEN ApplyFn(classes[c].fn, c)
         ELSE c

\* the name the converters resolve for a class (xmlmodel.py 145-147: an
\* XMLModel by _get_xml_name, any other model by its identifier)
ResolvedName(c) ==
    IF classes[c].pydantic = "v2" THEN _get_basemodel_name(c)
    ELSE IF classes[c].base = "XMLModel" THEN _get_xml_name(c) ELSE c

(***************************************************************************)
(* xml.etree.ElementTree elements.                                         *)
(***************************************************************************)
Element(tag) == [tag |-> tag, attrib |-> <<>>, text |-> None, children |-> <<>>]

\* Element.set: a dict assignment, an existing key keeps its place
SetAttr(e, key, value) ==
    IF \E i \in 1..Len(e.attrib) : e.attrib[i].k = key
    THEN [e EXCEPT !.attrib = [i \in 1..Len(e.attrib) |->
                IF e.attrib[i].k = key THEN [k |-> key, v |-> value] ELSE e.attrib[i]]]
    ELSE [e EXCEPT !.attrib = Append(e.attrib, [k |-> key, v |-> value])]

\* Element.get: the value, or None
\* a get that answers the empty string for a missing attribute
GetAttrOrEmpty(e, key) ==
    IF \E i \in 1..Len(e.attrib) : e.attrib[i].k = key
    THEN e.attrib[CHOOSE i \in 1..Len(e.attrib) : e.attrib[i].k = key].v
    ELSE ""

GetAttr(e, key) ==
    IF \E i \in 1..Len(e.attrib) : e.attrib[i].k = key
    THEN e.attrib[CHOOSE i \in 1..Len(e.attrib) : e.attrib[i].k = key].v
    ELSE None

HasAttr(e, key) == \E i \in 1..Len(e.attrib) : e.attrib[i].k = key

\* a SubElement that puts the child in front of its siblings
PrependChild(e, child) == [e EXCEPT !.children = <<child>> \o e.children]

\* SubElement once the child is complete
AppendChild(e, child) == [e EXCEPT !.children = Append(e.children, child)]

RECURSIVE Descendants(_, _)
\* Element.iter() without the element itself: what lies below it from child i
\* on, in document order
Descendants(e, i) ==
    IF i > Len(e.children) THEN <<>>
    ELSE <<e.children[i]>> \o Descendants(e.children[i], 1) \o Descendants(e, i + 1)

\* the search of Element.iter(tag): at any depth below the element
FindAllDeep(e, tag) == SelectSeq(Descendants(e, 1), LAMBDA c : c.tag = tag)

\* Element.findall(tag): the immediate children with the tag, in document order
FindAll(e, tag) == SelectSeq(e.children, LAMBDA c : c.tag = tag)

\* Element.find(tag): the first of them, or None
Find(e, tag) == IF FindAll(e, tag) = <<>> THEN None ELSE Head(FindAll(e, tag))

(***************************************************************************)
(* str() and repr() of the values.                                         *)
(***************************************************************************)
RECURSIVE Repr(_), ReprItems(_, _), ReprFields(_, _, _)
ReprItems(items, i) ==
    IF i > Len(items) THEN ""
    ELSE Repr(items[i]) \o (IF i < Len(items) THEN ", " ELSE "") \o ReprItems(items, i + 1)

ReprFields(names, vals, i) ==
    IF i > Len(vals) THEN ""
    ELSE names[i].name \o "=" \o Repr(vals[i]) \o (IF i < Len(vals) THEN " " ELSE "")
         \o ReprFields(names, vals, i + 1)

Repr(v) ==
    CASE v.k = "none" -> "None"
      [] v.k = "str" -> "'" \o v.v \o "'"
      [] v.k = "int" -> ToString(v.v)
      [] v.k = "list" -> "[" \o ReprItems(v.items, 1) \o "]"
      [] v.k = "model" -> v.cls \o "(" \o ReprFields(classes[v.cls].fields, v.vals, 1) \o ")"

Str(v) ==
    CASE v.k = "str" -> v.v
      [] v.k = "model" -> ReprFields(classes[v.cls].fields, v.vals, 1)
      [] OTHER -> Repr(v)

isinstance_BaseModel(v) == v.k = "model"

Fields(c) == classes[c].fields

(***************************************************************************)
(* serde.py: model_dump_xml.                                               *)
(***************************************************************************)
\* a select_name that takes the alias whatever by_alias says
select_name_ungated(opt, name, alias) ==
    IF alias # None THEN alias ELSE name

select_name(opt, name, alias) ==
    IF opt.by_alias /\ alias # None THEN alias ELSE name

\* a select_submodel_name that takes the alias whatever submodel_by_alias says
select_submodel_name_ungated(opt, name, alias) ==
    IF alias # None THEN alias ELSE name

select_submodel_name(opt, name, alias) ==
    IF opt.submodel_by_alias /\ alias # None THEN alias ELSE name

RECURSIVE convert_to_xml(_, _, _), DumpFields(_, _, _, _), DumpField(_, _, _, _),
          DumpItems(_, _, _, _, _)

\* lines 163-170: the items of a list value, from item i on
DumpItems(element, items, field, opt, i) ==
    IF i > Len(items) THEN [err |-> NoError, el |-> element]
    ELSE IF isinstance_BaseModel(items[i])
         THEN With(convert_to_xml(Element(select_submodel_name(opt,
                       _get_basemodel_name(items[i].cls), field.serialization_alias)),
                       items[i], opt),
                   LAMBDA r : IF Raised(r) THEN r
                              ELSE DumpItems(AppendChild(element, r.el), items, field, opt,
                                             i + 1))
         ELSE DumpItems(element, items, field, opt, i + 1)

\* lines 143-186: the body of the loop over the fields, for field i
DumpField(element, o, opt, i) ==
    LET field == Fields(o.cls)[i]
        name == field.name
        value == o.vals[i]
        origin == OriginOf(field.annotation)
        args == get_args(field.annotation)
        is_xml_content == name = "xml_content"
    IN  With(_analyze_annotation(origin, args), LAMBDA an :
        IF Raised(an) THEN Raise(an.err)
        ELSE IF an.is_list
        THEN IF value = PyNone THEN [err |-> NoError, el |-> element]
             ELSE IF value.k = "list" THEN DumpItems(element, value.items, field, opt, 1)
             \* iterating a model yields (name, value) tuples, a str its characters
             ELSE IF value.k \in {"model", "str"} THEN [err |-> NoError, el |-> element]
             ELSE Raise(TypeError)
        ELSE IF isinstance_BaseModel(value)
        THEN With(convert_to_xml(Element(select_submodel_name(opt,
                      _get_basemodel_name(value.cls), field.serialization_alias)),
                      value, opt),
                  LAMBDA r : IF Raised(r) THEN r
                             ELSE [err |-> NoError, el |-> AppendChild(element, r.el)])
        ELSE IF value = PyNone THEN [err |-> NoError, el |-> element]
        ELSE IF is_xml_content
        THEN [err |-> NoError, el |-> [element EXCEPT !.text = Str(value)]]
        ELSE [err |-> NoError,
              el |-> SetAttr(element, select_name(opt, name, field.serialization_alias),
                             Str(value))])

\* lines 142-186: the loop over obj.model_fields, from field i on
DumpFields(element, o, opt, i) ==
    IF i > Len(Fields(o.cls)) THEN [err |-> NoError, el |-> element]
    ELSE With(DumpField(element, o, opt, i),
              LAMBDA r : IF Raised(r) THEN r ELSE DumpFields(r.el, o, opt, i + 1))

convert_to_xml(element, o, opt) == DumpFields(element, o, opt, 1)

(***************************************************************************)
(* ElementTree.tostring(encoding="unicode"): the text as its lexemes.      *)
(***************************************************************************)
RECURSIVE Concat(_)
Concat(seqs) == IF seqs = <<>> THEN <<>> ELSE Head(seqs) \o Concat(Tail(seqs))

RECURSIVE Join(_)
\* the text itself
Join(tokens) == IF tokens = <<>> THEN "" ELSE Head(tokens) \o Join(Tail(tokens))

AttribTokens(e) ==
    Concat([i \in 1..Len(e.attrib) |-> <<" ", e.attrib[i].k, "=\"", e.attrib[i].v, "\"">>])

TextTokens(e) == IF e.text # None /\ e.text # "" THEN <<e.text>> ELSE <<>>

RECURSIVE tostring(_)
tostring(e) ==
    With(TextTokens(e) \o Concat([i \in 1..Len(e.children) |-> tostring(e.children[i])]),
         LAMBDA inner :
             IF e.tag = None THEN inner
             ELSE <<"<", e.tag>> \o AttribTokens(e)
                  \o (IF inner # <<>>
                      THEN <<">">> \o inner \o <<"</", e.tag, ">">>
                      ELSE <<" />">>))

XmlDeclaration == "<?xml version=\"1.0\" ?>"

model_dump_xml(model, include_xml_version, by_alias, submodel_by_alias) ==
    LET opt == [by_alias |-> by_alias, submodel_by_alias |-> submodel_by_alias]
        root == Element(_get_basemodel_name(model.cls))
    IN  With(convert_to_xml(root, model, opt), LAMBDA r :
            IF Raised(r) THEN [err |-> r.err, el |-> root, xml |-> <<>>]
            ELSE With(tostring(r.el), LAMBDA xml_string :
                     [err |-> NoError, el |-> r.el,
                      xml |-> IF include_xml_version
                              THEN <<XmlDeclaration>> \o xml_string
                              ELSE xml_string]))

(***************************************************************************)
(* ElementTree.fromstring on the lexemes.                                  *)
(***************************************************************************)
Punctuation == {"<", "</", ">", " />", "/>", " ", "=\"", "\"", XmlDeclaration}

NoParse == [ok |-> FALSE, el |-> Element(None), next |-> 0]

\* the lexemes with a character that must be escaped: a bare ampersand
IllFormed == {"test&test"}

RECURSIVE ParseAttrs(_, _, _)
ParseAttrs(t, i, el) ==
    IF /\ i + 4 <= Len(t) /\ t[i] = " " /\ t[i + 2] = "=\"" /\ t[i + 4] = "\""
       /\ t[i + 3] \notin IllFormed
    THEN ParseAttrs(t, i + 5, SetAttr(el, t[i + 1], t[i + 3]))
    ELSE [el |-> el, next |-> i]

\* character data: anything that is not markup
IsText(tok) == tok \notin Punctuation \cup IllFormed

RECURSIVE TextRun(_, _)
\* the character data from lexeme i on: [text, next]
TextRun(t, i) ==
    IF i <= Len(t) /\ IsText(t[i])
    THEN With(TextRun(t, i + 1), LAMBDA r : [text |-> t[i] \o r.text, next |-> r.next])
    ELSE [text |-> "", next |-> i]

RECURSIVE ParseElement(_, _), ParseChildren(_, _, _)
ParseChildren(t, i, el) ==
    IF i <= Len(t) /\ t[i] = "<"
    THEN With(ParseElement(t, i), LAMBDA c :
             IF c.ok THEN ParseChildren(t, TextRun(t, c.next).next, AppendChild(el, c.el))
             ELSE NoParse)
    ELSE [ok |-> TRUE, el |-> el, next |-> i]

ParseElement(t, i) ==
    IF i + 2 > Len(t) \/ t[i] # "<" \/ t[i + 1] \in Punctuation THEN NoParse
    ELSE With(ParseAttrs(t, i + 2, Element(t[i + 1])), LAMBDA a :
         IF a.next > Len(t) THEN NoParse
         ELSE IF t[a.next] \in {" />", "/>"}
         THEN [ok |-> TRUE, el |-> a.el, next |-> a.next + 1]
         ELSE IF t[a.next] # ">" THEN NoParse
         ELSE With(TextRun(t, a.next + 1), LAMBDA run :
              With(ParseChildren(t, run.next,
                                 IF run.next > a.next + 1
                                 THEN [a.el EXCEPT !.text = run.text] ELSE a.el),
                   LAMBDA c :
                       IF ~c.ok \/ c.next + 2 > Len(t) THEN NoParse
                       ELSE IF t[c.next] = "</" /\ t[c.next + 1] = t[i + 1]
                               /\ t[c.next + 2] = ">"
                            THEN [ok |-> TRUE, el |-> c.el, next |-> c.next + 3]
                            ELSE NoParse)))

\* white space around the root element
Newline == "\n"

fromstring(text) ==
    LET start == IF text # <<>> /\ text[1] = XmlDeclaration THEN 2 ELSE 1
        first == IF start <= Len(text) /\ text[start] = Newline THEN start + 1 ELSE start
    IN  With(ParseElement(text, first), LAMBDA r :
            LET last == IF r.ok /\ r.next = Len(text) /\ text[r.next] = Newline
                        THEN r.next + 1 ELSE r.next
            IN  IF r.ok /\ last = Len(text) + 1
                THEN [err |-> NoError, el |-> r.el]
                ELSE [err |-> ParseError, el |-> Element(None)])

(***************************************************************************)
(* Python dicts, as the ordered list of their items.                       *)
(***************************************************************************)
DictV(items) == [k |-> "dict", items |-> items]

HasKey(d, key) == \E i \in 1..Len(d) : d[i].k = key

DictGet(d, key) == d[CHOOSE i \in 1..Len(d) : d[i].k = key].v

DictSet(d, key, value) ==
    IF HasKey(d, key)
    THEN [i \in 1..Len(d) |-> IF d[i].k = key THEN [k |-> key, v |-> value] ELSE d[i]]
    ELSE Append(d, [k |-> key, v |-> value])

\* a Python set of classes in the order one run iterates it
SetInOrder(S, ord) == SelectSeq(ord, LAMBDA c : c \in S)

(***************************************************************************)
(* serde.py: model_validate_xml.                                           *)
(***************************************************************************)
RECURSIVE convert_from_xml(_, _, _), LoadFields(_, _, _, _, _), LoadField(_, _, _, _, _),
          LoadRecord(_, _, _, _, _, _), LoadList(_, _, _, _, _, _), LoadAll(_, _, _, _)

\* lines 249-254: the candidates of a record field, from candidate i on
LoadRecord(data, element, name, types, opt, i) ==
    IF i > Len(types) THEN [err |-> NoError, data |-> data]
    ELSE IF _get_basemodel_name(types[i]) = None THEN Raise(TypeError)
    ELSE With(FindAll(element, _get_basemodel_name(types[i])), LAMBDA found :
         IF found = <<>> THEN LoadRecord(data, element, name, types, opt, i + 1)
         ELSE With(convert_from_xml(Head(found), types[i], opt), LAMBDA r :
                  IF Raised(r) THEN r
                  ELSE LoadRecord(DictSet(data, name, DictV(r.data)), element, name,
                                  types, opt, i + 1)))

\* lines 264-267: the list comprehension over sub_elements, from element i on
LoadAll(subs, type, opt, i) ==
    IF i > Len(subs) THEN [err |-> NoError, items |-> <<>>]
    ELSE With(convert_from_xml(subs[i], type, opt), LAMBDA r :
         IF Raised(r) THEN r
         ELSE With(LoadAll(subs, type, opt, i + 1), LAMBDA rest :
                  IF Raised(rest) THEN rest
                  ELSE [err |-> NoError, items |-> <<DictV(r.data)>> \o rest.items]))

\* lines 261-267: the candidates of a list field, from candidate i on
LoadList(data, element, name, types, opt, i) ==
    IF i > Len(types) THEN [err |-> NoError, data |-> data]
    ELSE IF _get_basemodel_name(types[i]) = None THEN Raise(TypeError)
    ELSE With(LoadAll(FindAll(element, _get_basemodel_name(types[i])), types[i], opt, 1),
              LAMBDA r :
                  IF Raised(r) THEN r
                  ELSE LoadList(DictSet(data, name,
                                        ListV(DictGet(data, name).items \o r.items)),
                                element, name, types, opt, i + 1))

\* lines 223-276: the body of the loop over the fields, for field i
LoadField(data, element, c, opt, i) ==
    LET field == Fields(c)[i]
        origin == OriginOf(field.annotation)
        args == get_args(field.annotation)
        is_xml_content == field.name = "xml_content"
        name == IF opt.by_alias /\ field.validation_alias # None
                THEN field.validation_alias ELSE field.name
    IN  With(_analyze_annotation(origin, args), LAMBDA an :
        IF Raised(an) THEN Raise(an.err)
        ELSE IF an.is_basemodel /\ ~an.is_list
        THEN With(_find_basemodel_types(origin, args), LAMBDA types :
                 IF Raised(types) THEN Raise(types.err)
                 ELSE IF types.val = {} THEN Raise(ValueError)
                 ELSE LoadRecord(data, element, name, SetInOrder(types.val, opt.ord),
                                 opt, 1))
        ELSE IF an.is_basemodel /\ an.is_list
        THEN With(_find_basemodel_types(origin, args), LAMBDA types :
                 IF Raised(types) THEN Raise(types.err)
                 ELSE IF types.val = {} THEN Raise(ValueError)
                 ELSE LoadList(DictSet(data, name, ListV(<<>>)), element, name,
                               SetInOrder(types.val, opt.ord), opt, 1))
        ELSE With(IF is_xml_content THEN element.text ELSE GetAttr(element, name),
                  LAMBDA value :
                      IF value = None THEN [err |-> NoError, data |-> data]
                      ELSE [err |-> NoError, data |-> DictSet(data, name, StrV(value))]))

\* lines 222-276: the loop over obj.model_fields, from field i on
LoadFields(data, element, c, opt, i) ==
    IF i > Len(Fields(c)) THEN [err |-> NoError, data |-> data]
    ELSE With(LoadField(data, element, c, opt, i),
              LAMBDA r : IF Raised(r) THEN r
                         ELSE LoadFields(r.data, element, c, opt, i + 1))

convert_from_xml(element, c, opt) == LoadFields(<<>>, element, c, opt, 1)

(***************************************************************************)
(* pydantic: building an instance of a class from raw values, v2's         *)
(* model_validate(dict) and v1's call of the class with keyword arguments.*)
(***************************************************************************)
\* the decimal literals an int field parses
IntLiterals == Ints \cup {0, 1}

\* the key the validator reads a field from
ValidatorKey(c, field) ==
    IF classes[c].pydantic = "v2"
    THEN IF field.validation_alias # None THEN field.validation_alias ELSE field.name
    ELSE field.alias

RECURSIVE ValidateModel(_, _), ValidateFields(_, _, _), ValidateValue(_, _),
          ValidateItems(_, _, _), ValidateUnion(_, _, _), ValidateEach(_, _, _)

ValidateItems(annotation, items, i) ==
    IF i > Len(items) THEN [err |-> NoError, items |-> <<>>]
    ELSE With(IF annotation.args = <<>> THEN [err |-> NoError, val |-> items[i]]
              ELSE ValidateValue(annotation.args[1], items[i]),
              LAMBDA r :
                  IF Raised(r) THEN Raise(ValidationError)
                  ELSE With(ValidateItems(annotation, items, i + 1), LAMBDA rest :
                           IF Raised(rest) THEN rest
                           ELSE [err |-> NoError, items |-> <<r.val>> \o rest.items]))

\* a Tuple[...]: item i against parameter i
ValidateEach(args, items, i) ==
    IF i > Len(items) THEN [err |-> NoError, items |-> <<>>]
    ELSE With(ValidateValue(args[i], items[i]), LAMBDA r :
             IF Raised(r) THEN Raise(ValidationError)
             ELSE With(ValidateEach(args, items, i + 1), LAMBDA rest :
                      IF Raised(rest) THEN rest
                      ELSE [err |-> NoError, items |-> <<r.val>> \o rest.items]))

\* the first arm of a Union that accepts the value
ValidateUnion(args, raw, i) ==
    IF i > Len(args) THEN Raise(ValidationError)
    ELSE With(ValidateValue(args[i], raw),
              LAMBDA r : IF Raised(r) THEN ValidateUnion(args, raw, i + 1) ELSE r)

ValidateValue(annotation, raw) ==
    CASE annotation.cls = "Union" -> ValidateUnion(annotation.args, raw, 1)
      [] annotation.cls = "NoneType" ->
            IF raw.k = "none" THEN [err |-> NoError, val |-> PyNone]
            ELSE Raise(ValidationError)
      [] annotation.cls = "Any" -> [err |-> NoError, val |-> raw]
      [] annotation.cls = "str" ->
            IF raw.k = "str" THEN [err |-> NoError, val |-> raw] ELSE Raise(ValidationError)
      [] annotation.cls = "int" ->
            IF raw.k = "int" THEN [err |-> NoError, val |-> raw]
            ELSE IF raw.k = "str" /\ \E n \in IntLiterals : ToString(n) = raw.v
            THEN [err |-> NoError,
                  val |-> IntV(CHOOSE n \in IntLiterals : ToString(n) = raw.v)]
            ELSE Raise(ValidationError)
      [] annotation.cls = "list" ->
            IF raw.k = "list"
            THEN With(ValidateItems(annotation, raw.items, 1),
                      LAMBDA r : IF Raised(r) THEN r
                                 ELSE [err |-> NoError, val |-> ListV(r.items)])
            ELSE Raise(ValidationError)
      [] annotation.cls = "tuple" ->
            IF raw.k = "list" /\ Len(raw.items) = Len(annotation.args)
            THEN With(ValidateEach(annotation.args, raw.items, 1),
                      LAMBDA r : IF Raised(r) THEN r
                                 ELSE [err |-> NoError, val |-> ListV(r.items)])
            ELSE Raise(ValidationError)
      [] annotation.cls \in ModelIds ->
            IF raw.k = "dict" THEN ValidateModel(annotation.cls, raw.items)
            ELSE IF raw.k = "model" /\ raw.cls = annotation.cls
            THEN [err |-> NoError, val |-> raw]
            ELSE Raise(ValidationError)

\* a validator that knows no defaults: every field must be given
ValidateFieldsAllRequired(c, data, i) ==
    IF i > Len(Fields(c)) THEN [err |-> NoError, vals |-> <<>>]
    ELSE LET field == Fields(c)[i]
             key == ValidatorKey(c, field)
         IN  With(IF HasKey(data, key)
                  THEN ValidateValue(field.annotation, DictGet(data, key))
                  ELSE Raise(ValidationError),
                  LAMBDA r :
                      IF Raised(r) THEN Raise(ValidationError)
                      ELSE With(ValidateFields(c, data, i + 1), LAMBDA rest :
                               IF Raised(rest) THEN rest
                               ELSE [err |-> NoError, vals |-> <<r.val>> \o rest.vals]))

ValidateFields(c, data, i) ==
    IF i > Len(Fields(c)) THEN [err |-> NoError, vals |-> <<>>]
    ELSE LET field == Fields(c)[i]
             key == ValidatorKey(c, field)
         IN  With(IF HasKey(data, key)
                  THEN ValidateValue(field.annotation, DictGet(data, key))
                  ELSE IF field.required THEN Raise(ValidationError)
                  ELSE [err |-> NoError, val |-> field.default],
                  LAMBDA r :
                      IF Raised(r) THEN Raise(ValidationError)
                      ELSE With(ValidateFields(c, data, i + 1), LAMBDA rest :
                               IF Raised(rest) THEN rest
                               ELSE [err |-> NoError, vals |-> <<r.val>> \o rest.vals]))

ValidateModel(c, data) ==
    With(ValidateFields(c, data, 1),
         LAMBDA r : IF Raised(r) THEN r ELSE [err |-> NoError, val |-> ModelV(c, r.vals)])

\* a model_validate_xml that classifies the fields of the target before it parses
model_validate_xml_classify_first(model, xml_string, by_alias, ord) ==
    LET opt == [by_alias |-> by_alias, ord |-> ord]
        none == [err |-> NoError, bag |-> <<>>, val |-> PyNone]
    IN  With(convert_from_xml(Element(None), model, opt), LAMBDA early :
        IF Raised(early) THEN [none EXCEPT !.err = early.err]
        ELSE With(fromstring(xml_string), LAMBDA root :
             IF Raised(root) THEN [none EXCEPT !.err = root.err]
             ELSE With(convert_from_xml(root.el, model, opt), LAMBDA r :
                  IF Raised(r) THEN [none EXCEPT !.err = r.err]
                  ELSE With(ValidateModel(model, r.data), LAMBDA out :
                       IF Raised(out) THEN [none EXCEPT !.err = out.err, !.bag = r.data]
                       ELSE [err |-> NoError, bag |-> r.data, val |-> out.val]))))

\* lines 208-283
model_validate_xml(model, xml_string, by_alias, ord) ==
    LET opt == [by_alias |-> by_alias, ord |-> ord]
        none == [err |-> NoError, bag |-> <<>>, val |-> PyNone]
    IN  With(fromstring(xml_string), LAMBDA root :
        IF Raised(root) THEN [none EXCEPT !.err = root.err]
        ELSE With(convert_from_xml(root.el, model, opt), LAMBDA r :
             IF Raised(r) THEN [none EXCEPT !.err = r.err]
             ELSE With(ValidateModel(model, r.data), LAMBDA out :
                  IF Raised(out) THEN [none EXCEPT !.err = out.err, !.bag = r.data]
                  ELSE [err |-> NoError, bag |-> r.data, val |-> out.val])))

(***************************************************************************)
(* pydantic v1: what a ModelField of the annotation shows to xmlmodel.py.  *)
(***************************************************************************)
NotNoneArms(args) == SelectSeq(args, LAMBDA a : a.cls # "NoneType")

RECURSIVE ModelField(_)
ModelField(annotation) ==
    IF ~annotation.generic
    THEN [type_ |-> annotation.cls, has_sub_fields |-> FALSE, sub_fields |-> <<>>,
          allow_none |-> annotation.cls = "Any"]
    ELSE IF annotation.cls = "Union"
    THEN LET arms == NotNoneArms(annotation.args)
         IN  IF Len(arms) = 1
             THEN [ModelField(arms[1]) EXCEPT !.allow_none = TRUE]
             ELSE [type_ |-> NotAClass, has_sub_fields |-> TRUE,
                   sub_fields |-> [i \in 1..Len(arms) |-> ModelField(arms[i]).type_],
                   allow_none |-> Len(arms) < Len(annotation.args)]
    ELSE IF annotation.cls = "tuple"
    THEN [type_ |-> NotAClass, has_sub_fields |-> TRUE,
          sub_fields |-> [i \in 1..Len(annotation.args) |-> ModelField(annotation.args[i]).type_],
          allow_none |-> FALSE]
    ELSE IF annotation.args = <<>>
    THEN [type_ |-> "Any", has_sub_fields |-> TRUE, sub_fields |-> <<"Any">>,
          allow_none |-> FALSE]
    ELSE [type_ |-> AsClass(annotation.args[1]), has_sub_fields |-> TRUE,
          sub_fields |-> <<ModelField(annotation.args[1]).type_>>, allow_none |-> FALSE]

isinstance_XMLModel(v) == v.k = "model" /\ classes[v.cls].base = "XMLModel"

\* the index of the field called name, 0 without one
FieldIndex(c, name) ==
    IF \E i \in 1..Len(Fields(c)) : Fields(c)[i].name = name
    THEN CHOOSE i \in 1..Len(Fields(c)) : Fields(c)[i].name = name
    ELSE 0

(***************************************************************************)
(* xmlmodel.py: XMLModel.to_xml.                                           *)
(***************************************************************************)
RECURSIVE to_xml_innner(_, _, _), ToXmlFields(_, _, _, _), ToXmlField(_, _, _, _),
          ToXmlItems(_, _, _, _), ToXmlContent(_, _, _), ToXmlContentItems(_, _, _, _, _)

\* lines 161-169: the items of a list-like value, from item i on
ToXmlItems(e, items, exclude_none, i) ==
    IF i > Len(items) THEN [err |-> NoError, el |-> e]
    ELSE IF items[i].k # "model" THEN Raise(AttributeError)
    ELSE LET name == IF isinstance_XMLModel(items[i]) THEN _get_xml_name(items[i].cls)
                     ELSE items[i].cls
         IN  With(to_xml_innner(Element(name), items[i], exclude_none), LAMBDA r :
                 IF Raised(r) THEN r
                 ELSE ToXmlItems(AppendChild(e, r.el), items, exclude_none, i + 1))

\* lines 133-180: the body of the loop over the fields, for field i
ToXmlField(e, o, exclude_none, i) ==
    LET field == Fields(o.cls)[i]
        value == o.vals[i]
    IN  With(ModelField(field.annotation), LAMBDA f :
        IF field.name = "xml_content" THEN [err |-> NoError, el |-> e]
        ELSE IF _issubclass_safe(f.type_, "BaseModel") /\ ~f.has_sub_fields
        THEN IF f.allow_none /\ value = PyNone THEN [err |-> NoError, el |-> e]
             ELSE IF value.k # "model" THEN Raise(AttributeError)
             ELSE LET name == IF isinstance_XMLModel(value) THEN _get_xml_name(value.cls)
                              ELSE value.cls
                  IN  With(to_xml_innner(Element(name), value, exclude_none), LAMBDA r :
                          IF Raised(r) THEN r
                          ELSE [err |-> NoError, el |-> AppendChild(e, r.el)])
        ELSE IF f.has_sub_fields
        THEN IF ~_issubclass_safe(f.sub_fields[1], "BaseModel") THEN Raise(ValueError)
             ELSE IF value.k = "list" THEN ToXmlItems(e, value.items, exclude_none, 1)
             \* iterating a model yields tuples, which have no dict()
             ELSE IF value.k = "model" /\ Len(value.vals) > 0 THEN Raise(AttributeError)
             ELSE IF value.k = "model" THEN [err |-> NoError, el |-> e]
             \* iterating a str yields its characters, which have no dict() either
             ELSE IF value.k = "str" /\ value.v # "" THEN Raise(AttributeError)
             ELSE IF value.k = "str" THEN [err |-> NoError, el |-> e]
             ELSE Raise(TypeError)
        ELSE LET name == IF field.alias # None THEN field.alias ELSE field.name
             IN  IF ~(exclude_none /\ value = PyNone)
                 THEN [err |-> NoError, el |-> SetAttr(e, name, Str(value))]
                 ELSE [err |-> NoError, el |-> e])

\* lines 131-180: the loop over obj.dict(), from field i on
ToXmlFields(e, o, exclude_none, i) ==
    IF i > Len(Fields(o.cls)) THEN [err |-> NoError, el |-> e]
    ELSE With(ToXmlField(e, o, exclude_none, i),
              LAMBDA r : IF Raised(r) THEN r ELSE ToXmlFields(r.el, o, exclude_none, i + 1))

\* lines 197-199: the items of a list content, from item i on
ToXmlContentItems(e, items, name, exclude_none, i) ==
    IF i > Len(items) THEN [err |-> NoError, el |-> e]
    ELSE IF items[i].k # "model" THEN Raise(AttributeError)
    ELSE With(to_xml_innner(Element(name), items[i], exclude_none), LAMBDA r :
             IF Raised(r) THEN r
             ELSE ToXmlContentItems(AppendChild(e, r.el), items, name, exclude_none, i + 1))

\* lines 182-202: the content of the element
ToXmlContent(e, o, exclude_none) ==
    With(FieldIndex(o.cls, "xml_content"), LAMBDA i :
    With(ModelField(Fields(o.cls)[i].annotation), LAMBDA xml_content_field :
    With(xml_content_field.sub_fields[1], LAMBDA type_ :
        LET xml_content == o.vals[i]
            name == IF _issubclass_safe(type_, "XMLModel") THEN _get_xml_name(type_)
                    ELSE type_
        IN  IF ~(isinstance_XMLModel(o) /\ xml_content # PyNone)
            THEN [err |-> NoError, el |-> e]
            ELSE IF xml_content_field.has_sub_fields /\ ~_issubclass_safe(type_, "BaseModel")
            THEN Raise(ValueError)
            ELSE IF xml_content_field.has_sub_fields
            THEN IF xml_content.k = "list"
                 THEN ToXmlContentItems(e, xml_content.items, name, exclude_none, 1)
                 ELSE Raise(AttributeError)
            ELSE [err |-> NoError, el |-> [e EXCEPT !.text = Str(xml_content)]])))

to_xml_innner(e, o, exclude_none) ==
    With(ToXmlFields(e, o, exclude_none, 1),
         LAMBDA r : IF Raised(r) THEN r ELSE ToXmlContent(r.el, o, exclude_none))

(***************************************************************************)
(* xml.dom.minidom: toxml and toprettyxml of the parsed document.          *)
(***************************************************************************)
RECURSIVE toxml(_)
toxml(e) ==
    With(TextTokens(e) \o Concat([i \in 1..Len(e.children) |-> toxml(e.children[i])]),
         LAMBDA inner :
             <<"<", e.tag>> \o AttribTokens(e)
             \o (IF inner # <<>> THEN <<">">> \o inner \o <<"</", e.tag, ">">>
                 ELSE <<"/>">>))

RECURSIVE Spaces(_)
Spaces(n) == IF n <= 0 THEN "" ELSE " " \o Spaces(n - 1)

\* the indentation as a lexeme, nothing at the left margin
Indent(n) == IF n <= 0 THEN <<>> ELSE <<Spaces(n)>>

RECURSIVE writexml(_, _, _)
\* Element.writexml(writer, indent, addindent, newl)
writexml(e, indent, addindent) ==
    With(Indent(indent) \o <<"<", e.tag>> \o AttribTokens(e), LAMBDA start :
    With(TextTokens(e), LAMBDA text :
        IF text = <<>> /\ e.children = <<>> THEN start \o <<"/>", Newline>>
        ELSE IF e.children = <<>> THEN start \o <<">">> \o text \o <<"</", e.tag, ">", Newline>>
        ELSE start \o <<">", Newline>>
             \o (IF text = <<>> THEN <<>> ELSE Indent(indent + addindent) \o text \o <<Newline>>)
             \o Concat([i \in 1..Len(e.children) |->
                            writexml(e.children[i], indent + addindent, addindent)])
             \o Indent(indent) \o <<"</", e.tag, ">", Newline>>))

(***************************************************************************)
(* xmlmodel.py: XMLModel.to_xml; indent is <<>> for None, <<n>> for n.     *)
(***************************************************************************)
to_xml(self, indent, include_xml_version, exclude_none) ==
    LET root == Element(_get_xml_name(self.cls))
        declaration == IF include_xml_version
                       THEN <<XmlDeclaration>> \o (IF indent # <<>> THEN <<Newline>> ELSE <<>>)
                       ELSE <<>>
    IN  With(to_xml_innner(root, self, exclude_none), LAMBDA r :
        IF Raised(r) THEN [err |-> r.err, el |-> root, xml |-> <<>>]
        ELSE With(fromstring(tostring(r.el)), LAMBDA xml :
             IF Raised(xml) THEN [err |-> xml.err, el |-> r.el, xml |-> <<>>]
             ELSE [err |-> NoError, el |-> r.el,
                   xml |-> declaration \o (IF indent # <<>> THEN writexml(xml.el, 0, indent[1])
                                           ELSE toxml(xml.el))]))

(***************************************************************************)
(* xmlmodel.py: XMLModel.from_xml.  from_element returns the instance the  *)
(* class builds from the data, so nested classes validate first.           *)
(***************************************************************************)
RECURSIVE from_element(_, _), FromFields(_, _, _, _, _), FromField(_, _, _, _, _),
          FromChildren(_, _, _)

\* lines 299-300 and 324-329: the children to convert, from child i on
FromChildren(children, type_, i) ==
    IF i > Len(children) THEN [err |-> NoError, items |-> <<>>]
    ELSE With(from_element(children[i], type_), LAMBDA r :
         IF Raised(r) THEN Raise(r.err)
         ELSE With(FromChildren(children, type_, i + 1), LAMBDA rest :
                  IF Raised(rest) THEN rest
                  ELSE [err |-> NoError, items |-> <<r.val>> \o rest.items]))

\* lines 259-306: the body of the loop over the fields, for field i; xml_name is
\* the local variable as the previous iterations left it
FromField(data, xml_name, element, model, i) ==
    With(Fields(model)[i], LAMBDA field :
    With(ModelField(field.annotation), LAMBDA f :
    With(f.type_, LAMBDA field_type :
    With(f.has_sub_fields, LAMBDA is_list_like :
    With(f.sub_fields[1], LAMBDA type_ :
    With(IF is_list_like
         THEN IF _issubclass_safe(type_, "XMLModel") THEN _get_xml_name(type_)
              ELSE xml_name
         ELSE IF _issubclass_safe(field_type, "XMLModel") THEN _get_xml_name(field_type)
         ELSE field.alias, LAMBDA name :
    With([err |-> NoError, data |-> data, xml_name |-> name], LAMBDA same :
        IF field.name = "xml_content"
        THEN [err |-> NoError, data |-> data, xml_name |-> xml_name]
        ELSE IF is_list_like /\ ~_issubclass_safe(type_, "BaseModel") THEN Raise(ValueError)
        ELSE IF name = Absent THEN Raise(UnboundLocalError)
        ELSE IF HasAttr(element, name) /\ ~_issubclass_safe(field_type, "BaseModel")
        THEN [same EXCEPT !.data = DictSet(data, name, StrV(GetAttr(element, name)))]
        ELSE IF is_list_like
        THEN With(FromChildren(FindAll(element, name), type_, 1), LAMBDA r :
                 IF Raised(r) THEN r
                 ELSE [same EXCEPT !.data = DictSet(data, field.name, ListV(r.items))])
        ELSE IF FindAll(element, name) # <<>> /\ _issubclass_safe(field_type, "BaseModel")
        THEN With(from_element(Head(FindAll(element, name)), field_type), LAMBDA r :
                 IF Raised(r) THEN Raise(r.err)
                 ELSE [same EXCEPT !.data = DictSet(data, field.name, r.val)])
        ELSE same)))))))

\* lines 258-306: the loop over model.__fields__, from field i on
FromFields(data, xml_name, element, model, i) ==
    IF i > Len(Fields(model)) THEN [err |-> NoError, data |-> data]
    ELSE With(FromField(data, xml_name, element, model, i), LAMBDA r :
             IF Raised(r) THEN r
             ELSE FromFields(r.data, r.xml_name, element, model, i + 1))

from_element(element, model) ==
    With(FieldIndex(model, "xml_content"), LAMBDA i :
    With(ModelField(Fields(model)[i].annotation), LAMBDA xml_content_meta :
    With(xml_content_meta.sub_fields[1], LAMBDA type_ :
        LET name == IF _issubclass_safe(type_, "XMLModel") THEN _get_xml_name(type_)
                    ELSE type_
            text == IF element.text = None THEN "" ELSE element.text
            key == Fields(model)[i].alias
            \* line 336: out = model(**data)
            built(data) == With(ValidateModel(model, data), LAMBDA out :
                               IF Raised(out) THEN [err |-> out.err, data |-> data]
                               ELSE [err |-> NoError, data |-> data, val |-> out.val])
        IN  With(FromFields(<<>>, Absent, element, model, 1), LAMBDA r :
            IF Raised(r) THEN r
            ELSE IF i = 0 THEN Raise(KeyError)
            ELSE IF xml_content_meta.has_sub_fields
            THEN IF ~_issubclass_safe(type_, "BaseModel") THEN Raise(ValueError)
                 ELSE With(FromChildren(FindAll(element, name), type_, 1), LAMBDA items :
                          IF Raised(items) THEN items
                          ELSE built(DictSet(r.data, key, ListV(items.items))))
            ELSE built(DictSet(r.data, key, StrV(text)))))))

\* lines 340-341
from_xml(cls, xml) ==
    LET none == [err |-> NoError, bag |-> <<>>, val |-> PyNone]
    IN  With(fromstring(xml), LAMBDA root :
        IF Raised(root) THEN [none EXCEPT !.err = root.err]
        ELSE With(from_element(root.el, cls), LAMBDA r :
             \* the bag of the root was complete when its own validation failed
             IF Raised(r) /\ "data" \in DOMAIN r
             THEN [none EXCEPT !.err = r.err, !.bag = r.data]
             ELSE IF Raised(r) THEN [none EXCEPT !.err = r.err]
             ELSE [err |-> NoError, bag |-> r.data, val |-> r.val]))

(***************************************************************************)
(* The classes and instances the converters are run on.                    *)
(***************************************************************************)
Field(name, annotation, required, default, alias, serialization_alias, validation_alias) ==
    [name |-> name, annotation |-> annotation, required |-> required, default |-> default,
     alias |-> alias, serialization_alias |-> serialization_alias,
     validation_alias |-> validation_alias]

\* name: annotation
Required(name, annotation) == Field(name, annotation, TRUE, PyNone, None, None, None)
\* name: annotation = default
Default(name, annotation, default) == Field(name, annotation, FALSE, default, None, None, None)

\* pydantic v1's ModelField: the alias is the name unless one is given
V1Field(f) == [f EXCEPT !.alias = IF f.alias = None THEN f.name ELSE f.alias]

\* XMLModel's own field, which every subclass inherits in first place
InheritedContent == Default("xml_content", Optional(Plain("Any")), PyNone)

\* the declarations of the designated content field
ContentPool ==
    { Required("xml_content", Plain("str")),
      Default("xml_content", Optional(Plain("str")), PyNone),
      Required("xml_content", List(Plain("Item"))),
      Required("xml_content", List(Plain("int"))),
      Required("xml_content", Plain("Item")) }

\* the declarations of the other fields
FieldPool ==
    { Required("name", Plain("str")),
      Required("value", Plain("int")),
      Default("note", Optional(Plain("str")), PyNone),
      Default("note", Optional(Plain("str")), StrV("test")),
      Field("al", Plain("str"), TRUE, PyNone, "al_a", "al_a", "al_a"),
      Field("al", Plain("str"), TRUE, PyNone, None, "al_s", None),
      Field("al", Plain("str"), TRUE, PyNone, None, None, "al_v"),
      Required("inner", Plain("Item")),
      Default("inner", Optional(Plain("Item")), PyNone),
      Field("inner", Plain("Item"), TRUE, PyNone, None, "in_s", None),
      Required("inner", UnionOf(<<Plain("Item"), Plain("str")>>)),
      Required("inner", UnionOf(<<Plain("Item"), Plain("Part")>>)),
      Required("part", Plain("Part")),
      Required("items", List(Plain("Item"))),
      Default("items", Optional(List(Plain("Item"))), PyNone),
      Required("parts", List(Plain("Part"))),
      Required("pair", TupleOf(<<Plain("Item"), Plain("Part")>>)),
      Required("data", List(Plain("int"))),
      Required("data", BareList),
      Required("data", BuiltinList),
      Default("data", Optional(BuiltinList), PyNone) }

\* pydantic v1 has Field(alias=...) only
FieldPoolV1 == {f \in FieldPool : f.serialization_alias = f.validation_alias}

RECURSIVE Schemas(_, _)
\* the declaration lists of at most n fields of the pool, no name twice
Schemas(pool, n) ==
    IF n = 0 THEN {<<>>}
    ELSE LET shorter == Schemas(pool, n - 1)
         IN  shorter \cup
             {Append(p[1], p[2]) : p \in {q \in shorter \X pool :
                 \A i \in 1..Len(q[1]) : q[1][i].name # q[2].name}}

\* how the classes of a table are named
DefaultNaming(w) == IF w = "v2" THEN [attr |-> Absent, config |-> FALSE, fn |-> Absent]
                    ELSE [attr |-> None, config |-> FALSE, fn |-> "lower"]

Namings(w) ==
    IF w = "v2"
    THEN [attr : {Absent, None, "own"}, config : BOOLEAN, fn : {Absent}]
    ELSE [attr : {None, "own"}, config : {FALSE}, fn : {None, "lower", "upper"}]

\* a subclass of XMLModel (pydantic v1) or of BaseModel (pydantic v2)
Class(w, c, naming, fields) ==
    IF w = "v2"
    THEN [base |-> "BaseModel", pydantic |-> "v2",
          xml_name |-> IF naming.attr = "own" THEN OwnName(c) ELSE naming.attr,
          fn |-> Absent,
          config_xml_name |-> IF naming.config THEN ConfigName(c) ELSE None,
          fields |-> fields]
    ELSE [base |-> "XMLModel", pydantic |-> "v1",
          xml_name |-> IF naming.attr = "own" THEN OwnName(c) ELSE naming.attr,
          fn |-> naming.fn,
          config_xml_name |-> None,
          fields |-> [i \in 1..Len(fields) |-> V1Field(fields[i])]]

\* a pydantic v1 model that is not an XMLModel
PlainClass(fields) ==
    [base |-> "BaseModel", pydantic |-> "v1", xml_name |-> Absent, fn |-> Absent,
     config_xml_name |-> None, fields |-> [i \in 1..Len(fields) |-> V1Field(fields[i])]]

ItemFields(w) == IF w = "v2" THEN <<Required("x", Plain("str"))>>
                 ELSE <<InheritedContent, Required("x", Plain("str"))>>

\* Part as the tests declare such a model, and with a list field no schema allows
PartFields == <<Required("x", Plain("str"))>>
BadPartFields == <<Required("x", Plain("str")), Required("data", List(Plain("int")))>>

TableWith(w, naming, fields, partFields) ==
    [c \in ModelIds |->
        CASE c = "Example" -> Class(w, c, naming, fields)
          [] c = "Item" -> Class(w, c, naming, ItemFields(w))
          [] c = "Part" -> IF w = "v2" THEN Class(w, c, naming, partFields)
                           ELSE PlainClass(partFields)]

Table(w, naming, fields) == TableWith(w, naming, fields, PartFields)

\* pydantic v1 keeps an inherited field in its place when a subclass declares it
\* again, so the content field of an XMLModel is always the first one
V1Fields(s) ==
    LET content == SelectSeq(s, LAMBDA f : f.name = "xml_content")
        others == SelectSeq(s, LAMBDA f : f.name # "xml_content")
    IN  (IF content = <<>> THEN <<InheritedContent>> ELSE content) \o others

Declared(w, s) == IF w = "v2" THEN s ELSE V1Fields(s)

\* the declarations a pydantic version can express
Pool(w) == IF w = "v2" THEN FieldPool \cup ContentPool ELSE FieldPoolV1 \cup ContentPool

\* the declarations explored together, up to MaxFields of them in one class
CorePool ==
    { Required("name", Plain("str")),
      Required("value", Plain("int")),
      Default("inner", Optional(Plain("Item")), PyNone),
      Required("items", List(Plain("Item"))),
      Required("parts", List(Plain("Part"))),
      Required("data", List(Plain("int"))),
      Required("xml_content", List(Plain("Item"))),
      Required("xml_content", Plain("Item")) }

\* the declarations explored under every naming
NamedPool ==
    { Required("name", Plain("str")),
      Required("inner", Plain("Item")),
      Required("items", List(Plain("Item"))),
      Required("xml_content", List(Plain("Item"))) }

\* two fields of one nested record type
TwinSchema == <<Required("inner", Plain("Item")), Required("other", Plain("Item"))>>

\* a field of the type of the class that declares it
SelfSchema == <<Default("self", Optional(Plain("Example")), PyNone)>>

\* the declarations explored with a Part whose own schema is invalid
PartPool ==
    { Required("part", Plain("Part")),
      Default("part", Optional(Plain("Part")), PyNone),
      Required("parts", List(Plain("Part"))) }

\* the tables: under the default naming the class under test declares up to
\* MaxFields fields of the core pool or up to MaxVariantFields of the whole pool,
\* under the other namings up to MaxVariantFields of the named pool
TablesOf(w) ==
    {Table(w, DefaultNaming(w), Declared(w, s)) :
        s \in Schemas(CorePool, MaxFields) \cup Schemas(Pool(w), MaxVariantFields)
               \cup {TwinSchema, SelfSchema}}
    \cup {TableWith(w, DefaultNaming(w), Declared(w, <<f>>), BadPartFields) : f \in PartPool}
    \cup {Table(w, p[1], Declared(w, p[2])) :
            p \in Namings(w) \X Schemas(NamedPool, MaxVariantFields)}

Tables == TablesOf("v1") \cup TablesOf("v2")

\* the i-th item of a list: the tests number them, Model(xml_content=str(i))
RECURSIVE Values(_, _), ItemNo(_, _, _), SelfNo(_, _)
ItemNo(t, c, i) ==
    ModelV(c, [j \in 1..Len(t[c].fields) |->
                 IF t[c].fields[j].name = "xml_content" THEN PyNone
                 ELSE IF t[c].fields[j].annotation.cls = "str" THEN StrV(ToString(i - 1))
                 ELSE CHOOSE v \in Values(t, t[c].fields[j].annotation) : TRUE])

\* an instance of the class under test that nests d deep through its own type
SelfNo(t, d) ==
    ModelV("Example",
           [j \in 1..Len(t["Example"].fields) |->
               LET a == t["Example"].fields[j].annotation
               IN  IF t["Example"].fields[j].name = "xml_content" THEN PyNone
                   ELSE IF a = Optional(Plain("Example"))
                   THEN IF d <= 1 THEN PyNone ELSE SelfNo(t, d - 1)
                   ELSE CHOOSE v \in Values(t, a) : TRUE])

\* the values a field of the annotation holds once the class has validated them
Values(t, a) ==
    CASE a.cls = "Union" -> UNION {Values(t, a.args[i]) : i \in 1..Len(a.args)}
      [] a.cls = "NoneType" -> {PyNone}
      [] a.cls \in {"str", "Any"} -> {StrV(s) : s \in Strs}
      [] a.cls = "int" -> {IntV(n) : n \in Ints}
      [] a.cls = "Example" -> {SelfNo(t, d) : d \in 1..(MaxDepth - 1)}
      [] a.cls \in ModelIds \ {"Example"} -> {ItemNo(t, a.cls, 1)}
      [] a.cls = "list" ->
            IF a.args # <<>> /\ a.args[1].cls \in ModelIds
            THEN {ListV([i \in 1..n |-> ItemNo(t, a.args[1].cls, i)]) : n \in 0..MaxItems}
            ELSE {ListV(<<IntV(n)>>) : n \in Ints}
      \* a tuple holds one instance per parameter; only its items matter here
      [] a.cls = "tuple" -> {ListV([i \in 1..Len(a.args) |-> ItemNo(t, a.args[i].cls, i)])}

RECURSIVE Instances(_, _, _)
\* the value lists of the fields from field i on
Instances(t, fields, i) ==
    IF i > Len(fields) THEN {<<>>}
    ELSE {<<p[1]>> \o p[2] :
             p \in (IF fields[i] \in {TwinSchema[2], V1Field(TwinSchema[2])}
                    THEN {ItemNo(t, fields[i].annotation.cls, 2)}
                    ELSE Values(t, fields[i].annotation))
                   \X Instances(t, fields, i + 1)}

(***************************************************************************)
(* The calls.                                                              *)
(***************************************************************************)
NoCall == [fn |-> "none"]

\* the iteration orders of a set of classes
Orders == {ord \in [1..3 -> ModelIds] : \A c \in ModelIds : \E i \in 1..3 : ord[i] = c}

\* the classes an annotation names
Candidates(a) == {a.args[i].cls : i \in {j \in 1..Len(a.args) : a.args[j].cls \in ModelIds}}

\* the orders that make a difference: one when no field has two candidate classes
IterationOrders ==
    IF \E c \in ModelIds : \E i \in 1..Len(Fields(c)) :
            Cardinality(Candidates(Fields(c)[i].annotation)) > 1
    THEN Orders
    ELSE {CHOOSE ord \in Orders : TRUE}

\* documents written by hand: the one of the tests and one with a list of values
ExampleDocument ==
    <<"<", "example", " ", "name", "=\"", "test", "\"", " ", "value", "=\"", "123", "\"", "/>">>
DataDocument ==
    <<"<", "example", " ", "data", "=\"", "[123]", "\"", ">",
      "<", "data", ">", "123", "</", "data", ">", "</", "example", ">">>
\* test_from_xml_missing_attributes and test_from_xml_extra_attributes
MissingDocument == <<"<", "example", " ", "name", "=\"", "test", "\"", "/>">>
ExtraDocument ==
    <<"<", "example", " ", "name", "=\"", "test", "\"", " ", "value", "=\"", "123", "\"",
      " ", "extra", "=\"", "extra", "\"", "/>">>
\* an element with nothing in it, and one whose only attribute is called as the
\* elements of Item are
BareDocument == <<"<", "example", "/>">>
NamesakeDocument == <<"<", "example", " ", ResolvedName("Item"), "=\"", "extra", "\"", "/>">>

\* <c x="..."/> under the name the class has
RecordElement(c, x) == <<"<", ResolvedName(c), " ", "x", "=\"", x, "\"", "/>">>

\* records of two classes in turn, after one that lies deeper
ChildrenDocument ==
    <<"<", "example", ">">>
    \o <<"<", "wrap", ">">> \o RecordElement("Item", "9") \o <<"</", "wrap", ">">>
    \o RecordElement("Part", "0") \o RecordElement("Item", "0")
    \o RecordElement("Part", "1") \o RecordElement("Item", "1")
    \o <<"</", "example", ">">>

\* one record of each of two classes, with different values
PairDocument ==
    <<"<", "example", ">">> \o RecordElement("Part", "1") \o RecordElement("Item", "0")
    \o <<"</", "example", ">">>

\* a record that lacks its required attribute
LackingDocument ==
    <<"<", "example", ">", "<", ResolvedName("Item"), "/>", "</", "example", ">">>

\* texts that are not well formed: test_from_xml_empty_xml,
\* test_from_xml_special_characters, and an element left open
EmptyText == <<>>
AmpersandDocument ==
    <<"<", "example", " ", "name", "=\"", "test&test", "\"", " ", "value", "=\"", "123", "\"",
      "/>">>
UnclosedDocument == <<"<", "example", ">">>
Malformed == {EmptyText, AmpersandDocument, UnclosedDocument}

\* the documents that can be written for the classes: none names an element None
Documents ==
    {ExampleDocument, DataDocument, MissingDocument, ExtraDocument, BareDocument}
    \cup Malformed
    \cup (IF \E c \in ModelIds : ResolvedName(c) = None THEN {}
          ELSE {NamesakeDocument, ChildrenDocument, LackingDocument}
               \cup (IF Cardinality(IterationOrders) > 1 THEN {PairDocument} ELSE {}))

Init ==
    /\ classes \in Tables
    /\ obj \in {ModelV("Example", vals) : vals \in Instances(classes, classes["Example"].fields, 1)}
    /\ dump = NoCall
    /\ load = NoCall

\* model_dump_xml(obj, include_xml_version, by_alias, submodel_by_alias)
ModelDumpXml ==
    /\ classes["Example"].pydantic = "v2"
    /\ dump.fn = "none" /\ load.fn = "none"
    /\ \E include_xml_version, by_alias, submodel_by_alias \in BOOLEAN :
          dump' = With(model_dump_xml(obj, include_xml_version, by_alias, submodel_by_alias),
                       LAMBDA r :
                           [fn |-> "model_dump_xml",
                            include_xml_version |-> include_xml_version,
                            by_alias |-> by_alias, submodel_by_alias |-> submodel_by_alias,
                            err |-> r.err, el |-> r.el, xml |-> r.xml])
    /\ UNCHANGED <<classes, obj, load>>

\* the texts a decoder is given: the one just written, or one written by hand
Inputs == IF dump.fn = "none" THEN Documents
          ELSE IF dump.err = NoError THEN {dump.xml} ELSE {}

\* model_validate_xml(Example, xml_string, by_alias)
ModelValidateXml ==
    /\ classes["Example"].pydantic = "v2"
    /\ load.fn = "none"
    /\ \E xml_string \in Inputs, by_alias \in BOOLEAN, ord \in IterationOrders :
          load' = With(model_validate_xml("Example", xml_string, by_alias, ord),
                       LAMBDA r :
                           [fn |-> "model_validate_xml", xml |-> xml_string,
                            by_alias |-> by_alias,
                            err |-> r.err, bag |-> r.bag, val |-> r.val])
    /\ UNCHANGED <<classes, obj, dump>>

\* obj.to_xml(indent, include_xml_version, exclude_none)
ToXml ==
    /\ classes["Example"].pydantic = "v1"
    /\ dump.fn = "none" /\ load.fn = "none"
    /\ \E indent \in {<<>>, <<2>>}, include_xml_version, exclude_none \in BOOLEAN :
          dump' = With(to_xml(obj, indent, include_xml_version, exclude_none),
                       LAMBDA r :
                           [fn |-> "to_xml", indent |-> indent,
                            include_xml_version |-> include_xml_version,
                            exclude_none |-> exclude_none,
                            err |-> r.err, el |-> r.el, xml |-> r.xml])
    /\ UNCHANGED <<classes, obj, load>>

\* Example.from_xml(xml)
FromXml ==
    /\ classes["Example"].pydantic = "v1"
    /\ load.fn = "none"
    /\ \E xml \in Inputs :
          load' = With(from_xml("Example", xml),
                       LAMBDA r :
                           [fn |-> "from_xml", xml |-> xml, by_alias |-> TRUE,
                            err |-> r.err, bag |-> r.bag, val |-> r.val])
    /\ UNCHANGED <<classes, obj, dump>>

Next == ModelDumpXml \/ ModelValidateXml \/ ToXml \/ FromXml

Spec == Init /\ [][Next]_vars

(***************************************************************************)
(* What the claims speak of.                                               *)
(***************************************************************************)
Encoded == dump.fn # "none"
Decoded == load.fn # "none"

\* the options left at their defaults (serde.py 112-114 and 197, xmlmodel.py 96-98)
DefaultEncode ==
    \/ /\ dump.fn = "model_dump_xml"
       /\ ~dump.include_xml_version /\ ~dump.by_alias /\ ~dump.submodel_by_alias
    \/ /\ dump.fn = "to_xml"
       /\ dump.indent = <<>> /\ dump.include_xml_version /\ ~dump.exclude_none
DefaultDecode == load.fn = "from_xml" \/ (load.fn = "model_validate_xml" /\ load.by_alias)

\* the field XMLModel declares itself, left as inherited
IsInherited(f) == f.name = "xml_content" /\ f.annotation = Optional(Plain("Any"))

\* neither a record type nor a sequence, nor a union with such an arm
ScalarType(a) ==
    \/ a.cls \in {"str", "int"}
    \/ a.cls = "Union"
       /\ \A i \in 1..Len(a.args) : a.args[i].cls \in {"str", "int", "NoneType"}

\* a field that becomes an attribute
IsScalarField(f) == f.name # "xml_content" /\ ScalarType(f.annotation)

\* every field the class under test declares is one
ScalarOnly ==
    \A i \in 1..Len(Fields("Example")) :
        \/ IsScalarField(Fields("Example")[i])
        \/ IsInherited(Fields("Example")[i]) /\ obj.vals[i] = PyNone

\* C1: for a record type with only Scalar fields, serialize and then deserialize
\* of the text, both with their default options, yields an instance equal to the
\* original, whatever the values and the aliases.
C1_RoundTrip ==
    /\ ScalarOnly /\ Encoded /\ DefaultEncode => dump.err = NoError
    /\ ScalarOnly /\ Encoded /\ DefaultEncode /\ Decoded /\ DefaultDecode
          => load.err = NoError /\ load.val = obj

\* the type and the instance of the scenario: Example{name: "test", value: 123}
IsExampleScenario ==
    /\ \E k \in 0..1 :
          /\ Len(Fields("Example")) = k + 2
          /\ k = 1 => IsInherited(Fields("Example")[1]) /\ obj.vals[1] = PyNone
          /\ Fields("Example")[k + 1].name = "name"
          /\ Fields("Example")[k + 1].annotation = Plain("str")
          /\ Fields("Example")[k + 2].name = "value"
          /\ Fields("Example")[k + 2].annotation = Plain("int")
          /\ obj.vals[k + 1] = StrV("test") /\ obj.vals[k + 2] = IntV(123)

\* only the declaration switched off
WithoutDeclaration ==
    \/ /\ dump.fn = "model_dump_xml"
       /\ ~dump.include_xml_version /\ ~dump.by_alias /\ ~dump.submodel_by_alias
    \/ /\ dump.fn = "to_xml"
       /\ dump.indent = <<>> /\ ~dump.include_xml_version /\ ~dump.exclude_none

\* C8: for Example{name: "test", value: 123}, serialize without declaration
\* yields exactly <example name="test" value="123"/>, and deserialize of that
\* string yields an instance equal to the original.
C8_Scenario ==
    /\ IsExampleScenario /\ Encoded /\ WithoutDeclaration
          => dump.err = NoError /\ dump.xml = ExampleDocument
    /\ IsExampleScenario /\ Decoded /\ DefaultDecode /\ load.xml = ExampleDocument
          => load.err = NoError /\ load.val = obj

\* the explicit override of a class, None without one
Override(c) ==
    IF classes[c].xml_name \notin {Absent, None} THEN classes[c].xml_name
    ELSE classes[c].config_xml_name

\* the name the precedence rule gives
ExpectedName(c) ==
    IF Override(c) # None THEN Override(c)
    ELSE IF classes[c].fn \notin {Absent, None} THEN ApplyFn(classes[c].fn, c)
    ELSE c

\* the classes of the records a value holds
NestedClasses(v) ==
    CASE v.k = "model" -> {v.cls}
      [] v.k = "list" -> {v.items[j].cls : j \in {n \in 1..Len(v.items) : v.items[n].k = "model"}}
      [] OTHER -> {}

\* C2: the resolved element name of a record type is its explicit override when
\* one is set, otherwise the derivation function applied to the identifier when
\* one is configured, otherwise the identifier; for the root element that
\* serialize writes and for the nested elements of both directions.
C2_NamePrecedence ==
    /\ \A c \in ModelIds : ResolvedName(c) = ExpectedName(c)
    /\ Encoded /\ dump.err = NoError =>
          /\ dump.el.tag = ExpectedName("Example")
          /\ \A j \in 1..Len(dump.el.children) :
                dump.el.children[j].tag \in
                    {ExpectedName(c) : c \in UNION {NestedClasses(obj.vals[i]) :
                                                      i \in 1..Len(obj.vals)}}

\* the element the encoder in use builds for one nested record on its own
EncodeItem(v) ==
    IF dump.fn = "model_dump_xml"
    THEN convert_to_xml(Element(_get_basemodel_name(v.cls)), v,
                        [by_alias |-> dump.by_alias,
                         submodel_by_alias |-> dump.submodel_by_alias]).el
    ELSE to_xml_innner(Element(ResolvedName(v.cls)), v, dump.exclude_none).el

\* the elements of the children a field's value stands for
EncodeValue(v) ==
    CASE v.k = "model" -> <<EncodeItem(v)>>
      [] v.k = "list" ->
            LET records == SelectSeq(v.items, LAMBDA x : x.k = "model")
            IN  [j \in 1..Len(records) |-> EncodeItem(records[j])]
      [] OTHER -> <<>>

\* a list of a record type
IsRecordList(a) == a.cls = "list" /\ a.args # <<>> /\ a.args[1].cls \in ModelIds

RECURSIVE NestedCount(_, _)
\* how many records the values from value i on hold
NestedCount(vals, i) ==
    IF i > Len(vals) THEN 0
    ELSE Len(EncodeValue(vals[i])) + NestedCount(vals, i + 1)

ContentOf(o) ==
    IF FieldIndex(o.cls, "xml_content") = 0 THEN PyNone
    ELSE o.vals[FieldIndex(o.cls, "xml_content")]

\* the names a field may be written or read under
NamesOf(f) == {f.name, f.alias, f.serialization_alias, f.validation_alias} \ {None}

\* what the claim asks of the element el built for the instance o
Exclusive(el, o) ==
    /\ \A n \in (IF FieldIndex(o.cls, "xml_content") = 0 THEN {}
                 ELSE NamesOf(Fields(o.cls)[FieldIndex(o.cls, "xml_content")])) :
            ~HasAttr(el, n)
    /\ el.text # None <=> ContentOf(o).k \in {"str", "int"}

\* C4: in every element encode produces, no attribute is created for the
\* content field, and the text is set exactly when the content field holds a
\* non-null scalar; a record or a list of records there gives children instead.
C4_ContentExclusive ==
    Encoded /\ dump.err = NoError =>
        /\ Exclusive(dump.el, obj)
        /\ ContentOf(obj).k \in {"model", "list"} =>
              \A j \in 1..Len(EncodeValue(ContentOf(obj))) :
                  \E k \in 1..Len(dump.el.children) :
                      dump.el.children[k] = EncodeValue(ContentOf(obj))[j]
        /\ \A i \in 1..Len(obj.vals) :
              obj.vals[i].k = "model" /\ Fields("Example")[i].name # "xml_content" =>
                  Exclusive(EncodeItem(obj.vals[i]), obj.vals[i])

\* a list whose element type is absent or is not a record type
IsBadList(a) == a.cls = "list" /\ ~IsRecordList(a)
HasBadList(a) ==
    \/ IsBadList(a)
    \/ a.cls = "Union" /\ \E i \in 1..Len(a.args) : IsBadList(a.args[i])

\* C5: for a record type with a list field whose element type is absent or is
\* not a record type, the content field included, serialize of a populated
\* instance and deserialize of matching XML both fail with the schema error.
C5_SchemaErrorBothWays ==
    \A i \in 1..Len(obj.vals) :
        HasBadList(Fields("Example")[i].annotation) =>
            /\ Encoded /\ obj.vals[i].k = "list" => dump.err = ValueError
            /\ Decoded => load.err = ValueError

\* Optional[C] for a record type C
IsOptionalRecord(a) ==
    a.cls = "Union" /\ Len(a.args) = 2 /\ a.args[1].cls \in ModelIds /\ a.args[2] = NoneType

\* the records of class c that the fields other than field i hold
OthersOfClass(c, i) ==
    Concat([n \in 1..Len(obj.vals) |->
              IF n = i THEN <<>>
              ELSE SelectSeq(EncodeValue(obj.vals[n]), LAMBDA e : e.tag = ResolvedName(c))])

\* the root element of the text the decoder was given
LoadedRoot == fromstring(load.xml).el

\* the fields of the class under test apart from field i
NoOtherField(i) ==
    \A n \in 1..Len(Fields("Example")) : n = i \/ IsInherited(Fields("Example")[n])

\* C6: when an optional nested-record field is null, encode makes no child for
\* it, not even an empty one; and decoding an element without a child for the
\* field gives, for a field with a null default, an instance whose field is
\* null, without raising.
C6_AbsentOptional ==
    \A i \in 1..Len(obj.vals) :
        LET f == Fields("Example")[i]
            c == f.annotation.args[1].cls
        IN  IsOptionalRecord(f.annotation) =>
              /\ Encoded /\ dump.err = NoError /\ obj.vals[i] = PyNone =>
                    Len(FindAll(dump.el, ResolvedName(c))) <= Len(OthersOfClass(c, i))
              /\ /\ Decoded /\ load.err # ParseError
                 /\ f.default = PyNone /\ FindAll(LoadedRoot, ResolvedName(c)) = <<>>
                 => /\ load.err = NoError => load.val.vals[i] = PyNone
                    /\ NoOtherField(i) => load.err = NoError

\* a null optional record was written and the text read back
C6_Witness ==
    /\ Encoded /\ dump.err = NoError /\ Decoded /\ load.err = NoError
    /\ \E i \in 1..Len(obj.vals) :
          /\ IsOptionalRecord(Fields("Example")[i].annotation)
          /\ obj.vals[i] = PyNone /\ load.val.vals[i] = PyNone
          /\ dump.el.children = <<>>

\* a Scalar field that defines an alias, in either direction
HasAlias(f) ==
    IsScalarField(f) /\ (f.serialization_alias # None \/ f.validation_alias # None)

\* the name serialize writes a field under, and the one deserialize looks up
WrittenName(f, by_alias) ==
    IF by_alias /\ f.serialization_alias # None THEN f.serialization_alias ELSE f.name
LookupName(f, by_alias) ==
    IF by_alias /\ f.validation_alias # None THEN f.validation_alias ELSE f.name

\* serialize wrote field i under exactly this name
WrittenUnder(i, n) ==
    /\ GetAttr(dump.el, n) = Str(obj.vals[i])
    /\ \A m \in NamesOf(Fields("Example")[i]) \ {n} : ~HasAttr(dump.el, m)

\* deserialize read the attribute of this name, and no other, for the field
ReadFrom(f, n) ==
    /\ HasAttr(LoadedRoot, n) => /\ HasKey(load.bag, n)
                                 /\ DictGet(load.bag, n) = StrV(GetAttr(LoadedRoot, n))
    /\ ~HasAttr(LoadedRoot, n) => ~HasKey(load.bag, n)
    /\ \A m \in NamesOf(f) \ {n} : ~HasKey(load.bag, m)

\* model_dump_xml and model_validate_xml are the operations with an alias option
AliasEncoded == dump.fn = "model_dump_xml" /\ dump.err = NoError
AliasDecoded == load.fn = "model_validate_xml" /\ load.err \in {NoError, ValidationError}

\* the first two parts of the claim
AliasGating ==
    \A i \in 1..Len(obj.vals) :
        LET f == Fields("Example")[i]
        IN  HasAlias(f) =>
              /\ AliasEncoded => WrittenUnder(i, WrittenName(f, dump.by_alias))
              /\ AliasDecoded => ReadFrom(f, LookupName(f, load.by_alias))

\* a text written in one mode and read in the other
ModesDiffer == AliasEncoded /\ AliasDecoded /\ dump.by_alias # load.by_alias

C9_NullScalarOmitted ==
    Encoded /\ DefaultEncode /\ dump.err = NoError =>
        /\ \A i \in 1..Len(obj.vals) :
              IsScalarField(Fields("Example")[i]) /\ obj.vals[i] = PyNone =>
                  \A n \in NamesOf(Fields("Example")[i]) : ~HasAttr(dump.el, n)
        /\ ScalarOnly =>
              {dump.el.attrib[j].k : j \in 1..Len(dump.el.attrib)} \subseteq
                  UNION {NamesOf(Fields("Example")[i]) :
                            i \in {n \in 1..Len(obj.vals) : obj.vals[n] # PyNone}}

\* the children of the fields other than the content field, in declaration order
OtherChildren ==
    Concat([i \in 1..Len(obj.vals) |->
              IF Fields("Example")[i].name = "xml_content" THEN <<>>
              ELSE EncodeValue(obj.vals[i])])

\* C10: when the content field holds a record or a list of records, its
\* children come after the children of every other field, wherever the content
\* field is declared; the other fields' children are in declaration order.
C10_ContentLast ==
    Encoded /\ dump.err = NoError /\ ContentOf(obj).k \in {"model", "list"} =>
        \/ dump.el.children = OtherChildren \o EncodeValue(ContentOf(obj))
        \/ ContentOf(obj).k = "model" /\ dump.el.children = OtherChildren

\* the records the non-content field i of the instance holds
RecordsOf(i) ==
    IF Fields("Example")[i].name = "xml_content" THEN <<>>
    ELSE CASE obj.vals[i].k = "model" -> <<obj.vals[i]>>
           [] obj.vals[i].k = "list" -> SelectSeq(obj.vals[i].items, LAMBDA x : x.k = "model")
           [] OTHER -> <<>>

\* the children of the element serialize built that bear this tag
ChildrenTagged(tag) == SelectSeq(dump.el.children, LAMBDA e : e.tag = tag)

\* the records of the non-content fields whose runtime type resolves to this tag
RecordsTagged(tag) ==
    Concat([i \in 1..Len(obj.vals) |->
              SelectSeq(RecordsOf(i), LAMBDA r : ResolvedName(r.cls) = tag)])

\* the tag serialize gives the child of a record r held by field f
ChildTag(f, r) ==
    IF dump.fn = "model_dump_xml" /\ dump.submodel_by_alias /\ f.serialization_alias # None
    THEN f.serialization_alias
    ELSE ResolvedName(r.cls)

\* the tags of the children of the non-content fields, in declaration order
ChildTags ==
    Concat([i \in 1..Len(obj.vals) |->
              [j \in 1..Len(RecordsOf(i)) |-> ChildTag(Fields("Example")[i], RecordsOf(i)[j])]])

IsRecordLike(a) == a.cls \in ModelIds \/ IsRecordList(a)

\* a union, an optional included, with at least one record-like arm
IsRecordLikeUnion(a) ==
    a.cls = "Union" /\ \E n \in 1..Len(a.args) : IsRecordLike(a.args[n])

\* deserialize built the whole bag of the root and handed it to the validator
BagBuilt ==
    /\ Decoded
    /\ \/ load.err = NoError
       \/ load.err = ValidationError /\ (load.fn = "from_xml" => load.bag # <<>>)

\* the bag holds, under this key, the value of the root's attribute of that name
ReadAttr(n) ==
    /\ HasAttr(LoadedRoot, n) /\ HasKey(load.bag, n)
    /\ DictGet(load.bag, n) = StrV(GetAttr(LoadedRoot, n))

\* C12: a field whose declared type is a union with at least one record-like
\* arm is never an attribute: serialize writes no attribute for it whatever
\* value it holds, and deserialize reads no attribute for it, neither under a
\* name of the field nor, when the type has no other field, under any name.
C12_UnionRecordLike ==
    \A i \in 1..Len(obj.vals) :
        LET f == Fields("Example")[i]
        IN  IsRecordLikeUnion(f.annotation) /\ f.name # "xml_content" =>
              /\ Encoded /\ dump.err = NoError =>
                    \A n \in NamesOf(f) : ~HasAttr(dump.el, n)
              /\ BagBuilt => \A n \in NamesOf(f) : ~ReadAttr(n)
              /\ BagBuilt /\ NoOtherField(i) =>
                    \A n \in 1..Len(LoadedRoot.attrib) : ~ReadAttr(LoadedRoot.attrib[n].k)

\* the name deserialize looks a Scalar field up under, which is its key in the bag
DecodeKey(f) ==
    IF load.fn = "model_validate_xml" THEN LookupName(f, load.by_alias) ELSE f.alias

\* C13: for every non-content Scalar field, when the element has the attribute
\* of the field's lookup name the bag holds exactly the attribute's raw string
\* under the field's key, and when it has not the bag has no such key: no
\* default, no null and no empty string stands in for it.
C13_ScalarRaw ==
    BagBuilt =>
        \A i \in 1..Len(obj.vals) :
            LET f == Fields("Example")[i]
            IN  IsScalarField(f) =>
                  IF HasAttr(LoadedRoot, DecodeKey(f))
                  THEN ReadAttr(DecodeKey(f))
                  ELSE ~HasKey(load.bag, DecodeKey(f))

\* of two Scalar fields one attribute is present and the other is missing
C13_Witness ==
    /\ BagBuilt /\ load.xml = MissingDocument /\ load.err = ValidationError
    /\ \E i, j \in 1..Len(obj.vals) :
          /\ IsScalarField(Fields("Example")[i]) /\ IsScalarField(Fields("Example")[j])
          /\ ReadAttr(DecodeKey(Fields("Example")[i]))
          /\ DictGet(load.bag, DecodeKey(Fields("Example")[i])) = StrV("test")
          /\ ~HasAttr(LoadedRoot, DecodeKey(Fields("Example")[j]))
          /\ ~HasKey(load.bag, DecodeKey(Fields("Example")[j]))

\* a record type, or a union of record types and null: a Record field
IsRecordField(a) ==
    \/ a.cls \in ModelIds
    \/ /\ a.cls = "Union"
       /\ \A n \in 1..Len(a.args) : a.args[n].cls \in ModelIds \cup {"NoneType"}
       /\ \E n \in 1..Len(a.args) : a.args[n].cls \in ModelIds

\* the record types a Record field may hold
RecordCandidates(a) == IF a.cls \in ModelIds THEN {a.cls} ELSE Candidates(a)

\* the key of a non-scalar field in the bag
NestedKey(f) ==
    IF load.fn = "model_validate_xml" THEN LookupName(f, load.by_alias) ELSE f.name

\* what the decoder in use makes of one element read as the record type c
DecodeElement(e, c) ==
    IF load.fn = "model_validate_xml"
    THEN With(convert_from_xml(e, c, [by_alias |-> load.by_alias,
                                      ord |-> CHOOSE ord \in Orders : TRUE]),
              LAMBDA r : IF Raised(r) THEN [err |-> r.err, val |-> PyNone]
                         ELSE [err |-> NoError, val |-> DictV(r.data)])
    ELSE With(from_element(e, c),
              LAMBDA r : IF Raised(r) THEN [err |-> r.err, val |-> PyNone]
                         ELSE [err |-> NoError, val |-> r.val])

\* the immediate children of the root that bear the resolved name of c
Matches(c) == FindAll(LoadedRoot, ResolvedName(c))

\* C14: for every non-content Record field, only the first immediate child
\* whose tag is the resolved name of a candidate type is decoded, against that
\* type, and stored under the field's key; later children of the same tag and
\* deeper descendants are not used; without a matching child the bag has no
\* key for the field.
C14_RecordFirstChild ==
    BagBuilt =>
        \A i \in 1..Len(obj.vals) :
            LET f == Fields("Example")[i]
                matched == {c \in RecordCandidates(f.annotation) : Matches(c) # <<>>}
            IN  IsRecordField(f.annotation) /\ f.name # "xml_content" =>
                  IF matched = {} THEN ~HasKey(load.bag, NestedKey(f))
                  ELSE /\ HasKey(load.bag, NestedKey(f))
                       /\ \E c \in matched :
                             /\ DecodeElement(Head(Matches(c)), c).err = NoError
                             /\ DecodeElement(Head(Matches(c)), c).val
                                    = DictGet(load.bag, NestedKey(f))

\* a sequence of record types: a RecordList field
IsRecordSequence(a) ==
    /\ a.cls \in {"list", "tuple"} /\ a.args # <<>>
    /\ \A n \in 1..Len(a.args) : a.args[n].cls \in ModelIds

\* the candidate types of a RecordList field in the order of the declaration
DeclaredTypes(a) == [n \in 1..Len(a.args) |-> a.args[n].cls]

\* the matches of the candidates, candidate after candidate, each decoded
GatheredInOrder(a) ==
    Concat([n \in 1..Len(a.args) |->
              [m \in 1..Len(Matches(DeclaredTypes(a)[n])) |->
                  DecodeElement(Matches(DeclaredTypes(a)[n])[m], DeclaredTypes(a)[n]).val]])

\* C15: for a RecordList field with several candidate types the list in the bag
\* is all matches of the first declared candidate in document order, then all
\* matches of the second, and so on: every matching immediate child exactly
\* once and no other child.
C15_CandidateOrder ==
    BagBuilt =>
        \A i \in 1..Len(obj.vals) :
            LET f == Fields("Example")[i]
            IN  IsRecordSequence(f.annotation) /\ f.name # "xml_content" =>
                  /\ HasKey(load.bag, NestedKey(f))
                  /\ DictGet(load.bag, NestedKey(f)) = ListV(GatheredInOrder(f.annotation))

\* an optional RecordList field
IsOptionalSequence(a) ==
    /\ a.cls = "Union" /\ Len(a.args) = 2
    /\ IsRecordSequence(a.args[1]) /\ a.args[2] = NoneType

\* the record types whose elements a Record or RecordList field is read from
CandidatesOf(a) ==
    IF IsOptionalSequence(a) THEN Candidates(a.args[1])
    ELSE IF a.cls \in ModelIds THEN {a.cls}
    ELSE Candidates(a)

\* C16: for every Record field and every RecordList field, when the element
\* has no immediate child matching a candidate of the field, the bag handed to
\* the validator has no key for the field, neither a null nor an empty list.
C16_MissingChildren ==
    BagBuilt =>
        \A i \in 1..Len(obj.vals) :
            LET f == Fields("Example")[i]
            IN  /\ f.name # "xml_content"
                /\ \/ IsRecordField(f.annotation)
                   \/ IsRecordSequence(f.annotation)
                   \/ IsOptionalSequence(f.annotation)
                /\ \A c \in CandidatesOf(f.annotation) : Matches(c) = <<>>
                => ~HasKey(load.bag, NestedKey(f))

\* the text deserialize was given is not well-formed XML
NotWellFormed == load.xml \in Malformed \/ Raised(fromstring(load.xml))

\* C17: for every text that is not well-formed XML, the empty string included,
\* deserialize fails with the parse error, which is neither the schema error
\* nor the validation error, whatever the target type: the text is parsed
\* before a field is classified and before the validator runs. No other text
\* gives the parse error.
C17_ParseFirst ==
    /\ ParseError \notin {ValueError, ValidationError, NoError}
    /\ Decoded =>
          /\ NotWellFormed => load.err = ParseError /\ load.val = PyNone
          /\ load.err = ParseError => NotWellFormed

\* the empty string is given to a type with a schema-invalid list field and a
\* required field
C17_Witness ==
    /\ Decoded /\ load.xml = EmptyText /\ load.err = ParseError
    /\ \E i, j \in 1..Len(obj.vals) :
          /\ HasBadList(Fields("Example")[i].annotation)
          /\ Fields("Example")[j].required /\ IsScalarField(Fields("Example")[j])

\* the four ways a call of deserialize may end
Outcomes == {NoError, ParseError, ValueError, ValidationError}

\* the decoder in use answers the classification of this field with the schema error
Rejects(f) ==
    IF load.fn = "model_validate_xml"
    THEN With(_analyze_annotation(OriginOf(f.annotation), get_args(f.annotation)),
              LAMBDA an :
                  \/ Raised(an) /\ an.err = ValueError
                  \/ /\ ~Raised(an) /\ an.is_basemodel
                     /\ With(_find_basemodel_types(OriginOf(f.annotation),
                                                  get_args(f.annotation)),
                             LAMBDA types : Raised(types) \/ types.val = {}))
    ELSE /\ ModelField(f.annotation).has_sub_fields
         /\ ~_issubclass_safe(ModelField(f.annotation).sub_fields[1], "BaseModel")

\* a field of the target type is schema-invalid
SchemaInvalid == \E i \in 1..Len(obj.vals) : Rejects(Fields("Example")[i])

\* C18: the validator runs only after the bag of the whole tree is built, so
\* for a well-formed text a schema error of a field of the target is reported
\* and not a validation error of any record; every call ends in an instance,
\* the parse error, the schema error or the validation error, and a call that
\* ends in an error returns no instance.
C18_ValidationLast ==
    Decoded =>
        /\ load.err \in Outcomes
        /\ load.err = NoError <=> load.val # PyNone
        /\ load.err = NoError => load.val.k = "model" /\ load.val.cls = "Example"
        /\ SchemaInvalid /\ ~NotWellFormed => load.err = ValueError

\* the keys the fields of the target type have in the bag
FieldKeys ==
    {DecodeKey(Fields("Example")[i]) : i \in 1..Len(obj.vals)}
    \cup {NestedKey(Fields("Example")[i]) : i \in 1..Len(obj.vals)}

\* the root without the attributes no field looks up and without the
\* children that are not elements of a record type
WithoutExtras(e) ==
    [e EXCEPT !.attrib = SelectSeq(e.attrib, LAMBDA a : a.k \in FieldKeys),
              !.children = SelectSeq(e.children,
                                     LAMBDA c : \E m \in ModelIds : c.tag = ResolvedName(m))]

\* the bags the decoder in use may build from an element for the target type
BagsOf(e) ==
    IF load.fn = "model_validate_xml"
    THEN {convert_from_xml(e, "Example", [by_alias |-> load.by_alias, ord |-> ord]) :
              ord \in Orders}
    ELSE {With(from_element(e, "Example"),
               LAMBDA r : IF "data" \in DOMAIN r THEN [err |-> NoError, data |-> r.data]
                          ELSE Raise(r.err))}

\* C19: the decoder is driven by the target type alone: every key of the bag
\* is the lookup name of a field of the type, and attributes and children of
\* the element that no field asks for add no key and raise no error, the bag
\* is the one the element without them gives.
C19_SchemaDriven ==
    /\ BagBuilt =>
          /\ \A n \in 1..Len(load.bag) : load.bag[n].k \in FieldKeys
          /\ [err |-> NoError, data |-> load.bag] \in BagsOf(WithoutExtras(LoadedRoot))
    /\ Decoded /\ ~NotWellFormed /\ ~BagBuilt =>
          \E r \in BagsOf(WithoutExtras(LoadedRoot)) : Raised(r)

\* the content field of the target type, when it is declared a list of a record type
ContentField == Fields("Example")[FieldIndex("Example", "xml_content")]
HasContentList ==
    FieldIndex("Example", "xml_content") # 0 /\ IsRecordList(ContentField.annotation)

\* the children of the element serialize built are, somewhere, these elements
HasRun(els) ==
    \E k \in 0..Len(dump.el.children) :
        /\ k + Len(els) <= Len(dump.el.children)
        /\ \A j \in 1..Len(els) : dump.el.children[k + j] = els[j]

\* the parts of C20: the encoder, the decoder, and the two one after the other
ContentEncoded ==
    Encoded /\ dump.err = NoError /\ ContentOf(obj).k = "list" =>
        dump.el.text = None /\ HasRun(EncodeValue(ContentOf(obj)))
ContentDecoded ==
    BagBuilt =>
        /\ HasKey(load.bag, DecodeKey(ContentField))
        /\ DictGet(load.bag, DecodeKey(ContentField))
              = ListV(GatheredInOrder(ContentField.annotation))
ContentRoundTrip ==
    Len(Fields("Example")) = 1 =>
        /\ Encoded /\ DefaultEncode => dump.err = NoError
        /\ Encoded /\ DefaultEncode /\ Decoded /\ DefaultDecode
              => load.err = NoError /\ ContentOf(load.val) = ContentOf(obj)

\* C20: when the content field is declared a list of a record type, encode
\* renders each item as a child like the items of a RecordList field and sets
\* no text, decode gathers all immediate children bearing the item type's
\* element name, in document order, into the content field, and
\* deserialize(serialize(i)) yields a content list equal to the original.
C20_ContentList ==
    HasContentList => ContentEncoded /\ ContentDecoded /\ ContentRoundTrip

\* the record type declares a schema-invalid list field
TypeInvalid(c) == \E i \in 1..Len(Fields(c)) : HasBadList(Fields(c)[i].annotation)

RECURSIVE Held(_)
\* the record types of the records an instance is made of, itself included
Held(v) ==
    CASE v.k = "model" -> {v.cls} \cup UNION {Held(v.vals[i]) : i \in 1..Len(v.vals)}
      [] v.k = "list" -> UNION {Held(v.items[i]) : i \in 1..Len(v.items)}
      [] OTHER -> {}

\* the record types decode visits: the target, and the candidates of its
\* fields that have an immediate child; from_xml looks for the children of
\* XMLModel types only (xmlmodel.py 276-289)
Sought ==
    {"Example"} \cup
    UNION {{c \in CandidatesOf(Fields("Example")[i].annotation) :
                Matches(c) # <<>> /\ (load.fn = "from_xml" => classes[c].base = "XMLModel")} :
              i \in 1..Len(obj.vals)}

\* C21: a schema-invalid list field raises the schema error exactly when a
\* record of the type that declares it is visited: always then, whatever the
\* field's value and whether or not the element has a child for it, and never
\* for a type no record of which is visited.
C21_LazySchemaCheck ==
    /\ Encoded =>
          /\ (\E c \in Held(obj) : TypeInvalid(c)) => dump.err = ValueError
          /\ (\A c \in Held(obj) : ~TypeInvalid(c)) /\ TypeInvalid("Part")
                => dump.err # ValueError
    /\ Decoded /\ ~NotWellFormed =>
          /\ (\E c \in Sought : TypeInvalid(c)) => load.err = ValueError
          /\ (\A c \in Sought : ~TypeInvalid(c)) /\ TypeInvalid("Part")
                => load.err # ValueError

(***************************************************************************)
(* C22: the depth of the recursion.  Every call of convert_to_xml works on *)
(* an element of its own, one level below the element of its caller, and   *)
(* every call of convert_from_xml builds one record, held by the record of *)
(* its caller: the depth of what a converter returns is the depth its      *)
(* recursion reached.                                                      *)
(***************************************************************************)
\* the largest number of a set of naturals, 0 for the empty set
Highest(S) == IF S = {} THEN 0 ELSE CHOOSE n \in S : \A m \in S : m <= n

RECURSIVE Nesting(_)
\* how deep the records of a value nest
Nesting(v) ==
    CASE v.k = "model" -> 1 + Highest({Nesting(v.vals[i]) : i \in 1..Len(v.vals)})
      [] v.k = "list" -> Highest({Nesting(v.items[i]) : i \in 1..Len(v.items)})
      [] OTHER -> 0

RECURSIVE ElementDepth(_)
\* how deep the elements of a tree nest
ElementDepth(e) == 1 + Highest({ElementDepth(e.children[i]) : i \in 1..Len(e.children)})

\* a record that holds a record of its own type
SelfNested(v) ==
    /\ v.k = "model"
    /\ \E i \in 1..Len(v.vals) : v.vals[i].k = "model" /\ v.vals[i].cls = v.cls

RECURSIVE SubRecords(_)
\* the records of a value, itself included
SubRecords(v) ==
    CASE v.k = "model" -> {v} \cup UNION {SubRecords(v.vals[i]) : i \in 1..Len(v.vals)}
      [] v.k = "list" -> UNION {SubRecords(v.items[i]) : i \in 1..Len(v.items)}
      [] OTHER -> {}

RECURSIVE Subtrees(_)
\* the elements of a tree, its root included
Subtrees(e) == {e} \cup UNION {Subtrees(e.children[i]) : i \in 1..Len(e.children)}

\* serde.py 163-177: the values convert_to_xml(element, o) passes to its own calls
EncodeCalls(o) ==
    UNION {LET field == Fields(o.cls)[i]
               value == o.vals[i]
               an == _analyze_annotation(OriginOf(field.annotation),
                                         get_args(field.annotation))
           IN  IF Raised(an) THEN {}
               ELSE IF an.is_list
               THEN IF value.k = "list"
                    THEN {value.items[j] : j \in {n \in 1..Len(value.items) :
                                                     isinstance_BaseModel(value.items[n])}}
                    ELSE {}
               ELSE IF isinstance_BaseModel(value) THEN {value} ELSE {}
           : i \in 1..Len(o.vals)}

\* serde.py 249-267: the elements convert_from_xml(element, c) passes to its
\* own calls, with the type of each
DecodeCalls(element, c) ==
    UNION {LET field == Fields(c)[i]
               origin == OriginOf(field.annotation)
               args == get_args(field.annotation)
               an == _analyze_annotation(origin, args)
               types == _find_basemodel_types(origin, args)
           IN  IF Raised(an) \/ ~an.is_basemodel \/ Raised(types) THEN {}
               ELSE UNION {LET found == FindAll(element, _get_basemodel_name(type))
                           IN  IF an.is_list
                               THEN {<<found[n], type>> : n \in 1..Len(found)}
                               ELSE IF found = <<>> THEN {} ELSE {<<Head(found), type>>}
                           : type \in types.val}
           : i \in 1..Len(Fields(c))}

\* every call the encoder makes from a record is on a record that record holds
EncodeDescends ==
    \A o \in SubRecords(obj) : \A v \in EncodeCalls(o) :
        /\ v \in SubRecords(o) \ {o}
        /\ Nesting(v) < Nesting(o)

\* every call the decoder makes from an element is on a child of that element
DecodeDescends ==
    \A e \in Subtrees(fromstring(load.xml).el) : \A c \in ModelIds :
        \A call \in DecodeCalls(e, c) :
            /\ \E n \in 1..Len(e.children) : e.children[n] = call[1]
            /\ ElementDepth(call[1]) < ElementDepth(e)

\* what a converter has returned is no deeper than what it was given
DepthBounded ==
    /\ Encoded /\ dump.err = NoError => ElementDepth(dump.el) <= Nesting(obj)
    /\ Decoded /\ load.err = NoError =>
          Nesting(load.val) <= ElementDepth(fromstring(load.xml).el)

\* C22: encode and decode always terminate, for a self-referential record type
\* too: every recursive call of the encoder descends to a record held by the
\* record of its caller, every recursive call of the decoder to a child of the
\* element of its caller, and what the converters return shows a recursion no
\* deeper than the instance encoded nests, and no deeper than the element tree
\* decoded
C22_Termination ==
    /\ classes["Example"].pydantic = "v2" => EncodeDescends
    /\ classes["Example"].pydantic = "v2" /\ Decoded /\ ~NotWellFormed => DecodeDescends
    /\ DepthBounded

\* a record holding a record of its own type has been written and read back
C22_Witness ==
    /\ Encoded /\ dump.err = NoError /\ SelfNested(obj)
    /\ ElementDepth(dump.el) = MaxDepth
    /\ Decoded /\ load.err = NoError /\ SelfNested(load.val)
    /\ Nesting(load.val) = MaxDepth

(***************************************************************************)
(* C23: the name resolver as a total function.                             *)
(***************************************************************************)
\* the name of a class without a name attribute of its own: the name of its
\* configuration, the derived name, the identifier
Unnamed(c) ==
    IF classes[c].config_xml_name # None THEN classes[c].config_xml_name
    ELSE IF classes[c].fn \notin {Absent, None} THEN ApplyFn(classes[c].fn, c)
    ELSE c

\* C23: the name resolver is total: for every record type it returns a string
\* and never None, a name attribute that is None counts as no override, and a
\* type named only through its configuration is given that name
C23_ResolverTotal ==
    \A c \in ModelIds :
        /\ ResolvedName(c) # None
        /\ classes[c].xml_name \in {Absent, None} => ResolvedName(c) = Unnamed(c)

(***************************************************************************)
(* C24: the field types the two directions of serde.py accept.             *)
(***************************************************************************)
\* convert_to_xml raises the schema error at field i of the instance
EncodeRejects(i) ==
    DumpField(Element("Example"), obj, [by_alias |-> FALSE, submodel_by_alias |-> FALSE],
              i).err = ValueError

\* convert_from_xml raises the schema error at field i, on an element with
\* nothing in it
DecodeRejects(i) ==
    \A ord \in Orders :
        LoadField(<<>>, Element("Example"), "Example", [by_alias |-> FALSE, ord |-> ord],
                  i).err = ValueError

\* the optional list of a record type
OptionalRecordList == Optional(List(Plain("Item")))

\* C24: encoder and decoder agree on the field types they accept: for every
\* declared field type, encode raises the schema error exactly when decode
\* does, and a text the encoder wrote is not refused by the decoder with the
\* schema error
C24_TypesAgree ==
    classes["Example"].pydantic = "v2" =>
        /\ \A i \in 1..Len(obj.vals) :
              Nesting(obj.vals[i]) = 0 => (EncodeRejects(i) <=> DecodeRejects(i))
        /\ Encoded /\ dump.err = NoError /\ Decoded /\ load.xml = dump.xml =>
              load.err # ValueError

(***************************************************************************)
(* C25: the round trip of nested records.                                  *)
(***************************************************************************)
\* a field written and read under its own name only
Unaliased(f) ==
    /\ f.serialization_alias = None /\ f.validation_alias = None
    /\ f.alias \in {None, f.name}

\* a scalar, a record, or a list of the records of one type
NestedKind(f) ==
    \/ IsScalarField(f)
    \/ f.name # "xml_content" /\ f.annotation.cls \in ModelIds
    \/ f.name # "xml_content" /\ IsOptionalRecord(f.annotation)
    \/ f.name # "xml_content" /\ IsRecordList(f.annotation) /\ Len(f.annotation.args) = 1

\* every field of class c is of such a kind and has no alias; the content
\* field XMLModel declares is left empty
NestedOnlyClass(c, vals) ==
    \A i \in 1..Len(Fields(c)) :
        \/ Unaliased(Fields(c)[i]) /\ NestedKind(Fields(c)[i])
        \/ IsInherited(Fields(c)[i]) /\ vals[i] = PyNone

\* the same of the type of the instance and of the types of the records it holds
NestedOnly == \A o \in SubRecords(obj) : NestedOnlyClass(o.cls, o.vals)

\* two fields declared with the same record type hold different records
TwinFields ==
    \E i, j \in 1..Len(obj.vals) :
        /\ i # j
        /\ Fields("Example")[i].annotation = Fields("Example")[j].annotation
        /\ Fields("Example")[i].annotation.cls \in ModelIds
        /\ obj.vals[i] # obj.vals[j]

\* C25: for every instance of a record type without aliases whose fields are
\* scalars, records or lists of the records of one type, a type with two fields
\* of the same nested record type holding different values included, serialize
\* and then deserialize of the text yields an instance equal to the original
C25_NestedRoundTrip ==
    /\ NestedOnly /\ Encoded /\ DefaultEncode => dump.err = NoError
    /\ NestedOnly /\ Encoded /\ DefaultEncode /\ Decoded /\ DefaultDecode
          => load.err = NoError /\ load.val = obj

(***************************************************************************)
(* C26: the runs of the decoder compared.                                  *)
(***************************************************************************)
\* what a run of the decoder on the same text, type and options builds when its
\* sets of types iterate in the order ord
Rerun(ord) == model_validate_xml("Example", load.xml, load.by_alias, ord)

\* a Record field with several candidates each of which has a child in the text
SeveralMatch ==
    \E i \in 1..Len(Fields("Example")) :
        /\ IsRecordField(Fields("Example")[i].annotation)
        /\ Cardinality({c \in RecordCandidates(Fields("Example")[i].annotation) :
                           Matches(c) # <<>>}) > 1

\* C26: decode is deterministic: every run of model_validate_xml on the same
\* text, target type and options ends the same way and builds the same raw
\* bag, whatever the order in which a set of candidate types iterates
C26_Deterministic ==
    load.fn = "model_validate_xml" =>
        \A ord \in Orders : Rerun(ord).err = load.err /\ Rerun(ord).bag = load.bag


====
